---- MODULE Spec2Model ----
(***************************************************************************)
(* Yourdio composition engine (src/yourdio.py).                            *)
(*                                                                         *)
(* The specifications share the variables below:                           *)
(*   Spec          one create_chapter_midi call on a fresh Composer        *)
(*   SpecPoly      the polyphony manager under arbitrary submissions       *)
(*   SpecArc       calculate_chapter_intensity on bounded inputs           *)
(*   SpecOrder     a chapter, then the same chapter with permuted layers   *)
(*   SpecLogistic  _logistic_map_events, called twice                      *)
(*   SpecBuild     RetroMIDIComposer.__init__ on a style configuration     *)
(*   SpecOrchestra generate_full_composition and generate_event_set        *)
(*   SpecFib       _fibonacci_sequence on bounded arguments                *)
(*   SpecMerge     ThemeLoader._merge_with_defaults on partial themes      *)
(*   SpecLive      create_chapter_midi under fairness (termination)        *)
(*   SpecGui       generation runs started from the GUI (yourdio_gui.py)   *)
(*                                                                         *)
(* Numbers.  The program computes in Python floats; the model computes in  *)
(* exact integers on fixed grids:                                          *)
(*   beats       multiples of 1/Resolution beat                            *)
(*   minutes     multiples of 1/2 minute (duration_minutes)                *)
(*   chaos x     multiples of 1/ChaosScale (logistic map, Lorenz state)    *)
(*   intensity   a fraction num/den of tenths (the arc function)           *)
(* Rounding of IEEE doubles is not modelled.                               *)
(***************************************************************************)
EXTENDS Integers, Sequences, FiniteSets, TLC

VARIABLES
    pc,            \* position of the running call
    cfg,           \* the Composer's derived fields and the chapter request
    active_notes,  \* self.active_notes: sequence of [end, pitch, track]
    midi,          \* the MIDIFile sink: events in emission order
    last,          \* the last _enforce_polyphony_limit call: arguments, list after the prune, return value
    submitted,     \* SpecPoly: the submissions made so far, in order
    current_beat,  \* cursor of the running layer loop (whole beats)
    idx,           \* prime_idx / motif_count of the running layer loop
    motif_i,       \* index i of the motif loop in _generate_melodic_texture
    lorenz,        \* (x, y, z) of _generate_drones
    arc_in,        \* SpecArc: arguments of calculate_chapter_intensity
    arc_out,       \* SpecArc: its outcome
    order,         \* the order in which the running call runs the four layers
    draws,         \* outcomes of np.random.random() < ornament_density so far in the running call
    ref,           \* SpecOrder: sink, draws and active_notes of the completed reference call
    chaos,         \* SpecLogistic: the _logistic_map_events calls made and their results
    theme,         \* SpecBuild: the style configuration handed to the constructor
    calls,         \* SpecOrchestra: arguments of the create_chapter_midi calls made so far
    fib,           \* SpecFib: argument and result of _fibonacci_sequence
    loader,        \* SpecMerge: DEFAULT_THEME, the partial theme and the outcome of _merge_with_defaults
    gui            \* SpecGui: the generation runs started from the GUI and the temporary theme files

vars == <<pc, cfg, active_notes, midi, last, submitted, current_beat, idx, motif_i, lorenz, arc_in, arc_out,
          order, draws, ref, chaos, theme, calls, fib, loader, gui>>

(***************************************************************************)
(* Grids and small helpers                                                 *)
(***************************************************************************)
\* ticks per beat: 0.125 (thunder roll), 0.1 (jitter), 0.95 (pad length) and
\* i/64 (event timestamps) are all whole numbers of ticks
Resolution == 320

\* fixed-point scale of the chaotic recurrences
ChaosScale == 1000

\* a key the configuration mapping does not hold (dict.get falls back)
Absent == -1

Abs(n) == IF n < 0 THEN -n ELSE n

Min2(a, b) == IF a <= b THEN a ELSE b

\* Python int(): truncation toward zero of num/den, den > 0
Trunc(num, den) == IF num >= 0 THEN num \div den ELSE -((-num) \div den)

\* numpy.clip
Clip(v, lo, hi) == IF v < lo THEN lo ELSE IF v > hi THEN hi ELSE v

(***************************************************************************)
(* The MIDI sink (midiutil.MIDIFile): one record per emission              *)
(***************************************************************************)
Ev(kind, track, time, pitch, duration, value) ==
    [kind |-> kind, track |-> track, channel |-> track, time |-> time,
     pitch |-> pitch, duration |-> duration, value |-> value]

\* midi.addNote(track, channel, pitch, time, duration, volume)
NoteEv(track, pitch, time, duration, volume) == Ev("note", track, time, pitch, duration, volume)

\* midi.addControllerEvent(track, channel, time, controller_number, parameter)
CcEv(track, time, number, value) == Ev("cc", track, time, number, 0, value)

\* midi.addPitchWheelEvent(track, channel, time, value)
BendEv(track, time, value) == Ev("bend", track, time, 0, 0, value)

TempoEv(track, bpm) == Ev("tempo", track, 0, 0, 0, bpm)

ProgramEv(track, patch) == Ev("program", track, 0, 0, 0, patch)

(***************************************************************************)
(* Polyphony manager: RetroMIDIComposer._enforce_polyphony_limit           *)
(***************************************************************************)
\* line 137-138: keep the entries whose end_time is after the onset
Prune(an, time) == SelectSeq(an, LAMBDA e : e.end > time)

Entry(track, time, pitch, duration) == [end |-> time + duration, pitch |-> pitch, track |-> track]

\* faulty variants of StealVoice: the newest entry goes; no entry goes
StealNewest(an) == SubSeq(an, 1, Len(an) - 1)

StealNothing(an) == an

\* line 147: self.active_notes.pop(0)
StealVoice(an) == Tail(an)

\* faulty variant of EnforcePolyphonyLimit: a full set drops the note instead of stealing a voice
EnforceDropWhenFull(an, max_polyphony, track, time, pitch, duration, velocity) ==
    LET pruned == Prune(an, time) IN
    IF Len(pruned) < max_polyphony
    THEN [active |-> Append(pruned, Entry(track, time, pitch, duration)),
          written |-> <<NoteEv(track, pitch, time, duration, velocity)>>,
          pruned |-> pruned, ret |-> TRUE]
    ELSE [active |-> pruned, written |-> <<>>, pruned |-> pruned, ret |-> FALSE]

\* the whole call: the new active_notes, the notes written to the sink, the
\* list as it stood after the prune, and the return value
EnforcePolyphonyLimit(an, max_polyphony, track, time, pitch, duration, velocity) ==
    LET pruned == Prune(an, time) IN
    IF Len(pruned) < max_polyphony
    THEN [active |-> Append(pruned, Entry(track, time, pitch, duration)),
          written |-> <<NoteEv(track, pitch, time, duration, velocity)>>,
          pruned |-> pruned, ret |-> TRUE]
    ELSE IF pruned # <<>>
         THEN [active |-> Append(StealVoice(pruned), Entry(track, time, pitch, duration)),
               written |-> <<NoteEv(track, pitch, time, duration, velocity)>>,
               pruned |-> pruned, ret |-> TRUE]
         ELSE [active |-> pruned, written |-> <<>>, pruned |-> pruned, ret |-> FALSE]

\* what `last` remembers of a call
Call(track, time, pitch, duration, velocity, r) ==
    [called |-> TRUE, track |-> track, time |-> time, pitch |-> pitch,
     duration |-> duration, velocity |-> velocity,
     pruned |-> r.pruned, written |-> r.written, ret |-> r.ret]

NoCall ==
    [called |-> FALSE, track |-> 0, time |-> 0, pitch |-> 0, duration |-> 0,
     velocity |-> 0, pruned |-> <<>>, written |-> <<>>, ret |-> FALSE]

(***************************************************************************)
(* Composer construction: RetroMIDIComposer.__init__ and _build_scale      *)
(***************************************************************************)
D_dorian == <<62, 64, 65, 67, 69, 71, 72, 74>>

A_aeolian == <<69, 71, 72, 74, 76, 77, 79, 81>>

E_phrygian == <<64, 65, 67, 69, 71, 72, 74, 76>>

\* custom_scale: [given |-> FALSE] stands for None
NoScale == [given |-> FALSE, pitches |-> <<>>]

CustomScale(pitches) == [given |-> TRUE, pitches |-> pitches]

BuildScale(mode, custom_scale) ==
    IF custom_scale.given THEN custom_scale.pitches
    ELSE IF mode = "A_aeolian" THEN A_aeolian
    ELSE IF mode = "E_phrygian" THEN E_phrygian
    ELSE D_dorian

\* The Composer built from ThemeLoader.DEFAULT_THEME with max_polyphony = None,
\* together with a chapter request.  Beats are in beats, minutes in minutes
\* unless a field name says otherwise.
DefaultComposer ==
    [tempo |-> 58,
     max_polyphony |-> 32,
     scale |-> BuildScale("D_dorian", NoScale),
     harmony_intervals |-> <<0, 3, 6>>,
     harmony_variation |-> FALSE,           \* harmony_rules has a truthy 'variation'
     variation_intervals_given |-> FALSE,   \* harmony_rules has 'variation_intervals'
     harmony_variation_intervals |-> <<0, 2, 4>>,
     harmony_variation_mod |-> 3,
     h_base_duration |-> 32,
     h_prime_mod_factor |-> 8,
     h_base_velocity |-> 45,
     h_prime_mod_range |-> 20,
     motif_pattern |-> <<0, 2, 5, 7>>,
     motif_interval |-> 17,                 \* interval_minutes = motif_interval / motif_interval_den
     motif_interval_den |-> 1,
     motif_register_mod |-> 2,
     motif_ornament_mod |-> 5,
     m_base_velocity |-> 55,
     m_prime_mod_range |-> 25,
     fib_length |-> 8,
     fib_base_unit_ticks |-> Resolution \div 4,
     duration_multiplier |-> 4,
     cc_event_interval |-> 4,
     drone_velocity |-> 50,
     threshold |-> 870,
     event_count |-> 64,
     logistic_r |-> 3860,
     lorenz_sigma |-> 10000,
     lorenz_rho |-> 28000,
     lorenz_beta |-> 2667,
     ensemble_gm |-> <<89, 92, 95, 99>>,
     duration_half_minutes |-> 1,
     prime_sequence |-> <<2, 3>>,
     chaos_seed |-> 500]

(***************************************************************************)
(* Pure helpers of the layer generators                                    *)
(***************************************************************************)
\* beats_total = int(duration * beats_per_minute)
BeatsTotal(c) == Trunc(c.duration_half_minutes * c.tempo, 2)

\* primes[k % len(primes)] (callers guard len(primes) > 0)
PrimeAt(c, k) == c.prime_sequence[(k % Len(c.prime_sequence)) + 1]

\* scale[k % len(scale)]
ScaleAt(c, k) == c.scale[(k % Len(c.scale)) + 1]

\* _fibonacci_sequence
RECURSIVE FibFrom(_, _)
FibFrom(seq, n) ==
    IF Len(seq) >= n THEN seq
    ELSE FibFrom(Append(seq, seq[Len(seq)] + seq[Len(seq) - 1]), n)

\* faulty variant of FibonacciSequence: the case n == 1 is missing
FibonacciSequenceNoSingle(n) ==
    IF n <= 0 THEN <<>> ELSE FibFrom(<<1, 1>>, n)

FibonacciSequence(n) ==
    IF n <= 0 THEN <<>> ELSE IF n = 1 THEN <<1>> ELSE FibFrom(<<1, 1>>, n)

\* faulty variant of BuildChord: the variation set is taken for every prime
BuildChordAlwaysVaried(c, root_idx, prime) ==
    LET intervals == IF c.harmony_variation
                     THEN c.harmony_variation_intervals
                     ELSE c.harmony_intervals
        octave_shift == IF prime % 2 = 0 THEN -12 ELSE 0
    IN [k \in 1..Len(intervals) |-> ScaleAt(c, root_idx + intervals[k]) + octave_shift]

\* _build_chord(root_idx, prime)
BuildChord(c, root_idx, prime) ==
    LET intervals == IF c.harmony_variation /\ prime % c.harmony_variation_mod = 0
                     THEN c.harmony_variation_intervals
                     ELSE c.harmony_intervals
        octave_shift == IF prime % 2 = 0 THEN -12 ELSE 0
    IN [k \in 1..Len(intervals) |-> ScaleAt(c, root_idx + intervals[k]) + octave_shift]

\* faulty variant of GmPatch: a layer without a configured patch gets patch 0
GmPatchZero(c, track) ==
    IF track < 4
    THEN IF c.ensemble_gm[track + 1] = Absent THEN 0 ELSE c.ensemble_gm[track + 1]
    ELSE 0

\* _get_gm_patch: ensemble_gm lists the patches of the four layers in track order
GmPatch(c, track) ==
    IF track < 4
    THEN IF c.ensemble_gm[track + 1] = Absent THEN 89 ELSE c.ensemble_gm[track + 1]
    ELSE 89

(***************************************************************************)
(* Chaotic recurrences                                                     *)
(***************************************************************************)
\* _lorenz_step with dt = 0.01, on s = <<x, y, z>>
LorenzStep(c, s) ==
    LET x == s[1]
        y == s[2]
        z == s[3]
        dx == Trunc(c.lorenz_sigma * (y - x), ChaosScale * 100)
        dy == Trunc(Trunc(x * (c.lorenz_rho - z), ChaosScale) - y, 100)
        dz == Trunc(Trunc(x * y, ChaosScale) - Trunc(c.lorenz_beta * z, ChaosScale), 100)
    IN <<x + dx, y + dy, z + dz>>

\* faulty variant of Brightness: x / 20.0 is not clipped
BrightnessUnclipped(x) == Trunc(65 * 20 * ChaosScale + 35 * x, 20 * ChaosScale)

\* brightness = int(65 + 35 * np.clip(x / 20.0, -1, 1))
Brightness(x) ==
    Trunc(65 * 20 * ChaosScale + 35 * Clip(x, -20 * ChaosScale, 20 * ChaosScale), 20 * ChaosScale)

\* the values x takes in n more iterations x = r * x * (1 - x) of the loop, in
\* order (the first half of the iterations is computed before the second half
\* starts from its last value)
RECURSIVE LogisticOrbit(_, _, _)
LogisticOrbit(c, x, n) ==
    IF n <= 0 THEN <<>>
    ELSE IF n = 1 THEN <<(c.logistic_r * x * (ChaosScale - x)) \div (ChaosScale * ChaosScale)>>
    ELSE LET first == LogisticOrbit(c, x, n \div 2)
         IN first \o LogisticOrbit(c, first[Len(first)], n - n \div 2)

\* _logistic_map_events: iterations i..n-1 from x, events appended to acc;
\* timestamp = i / n is kept as the fraction num/den
LogisticFrom(c, x, i, acc) ==
    LET xs == LogisticOrbit(c, x, c.event_count - i)
        after == [k \in 1..Len(xs) |-> [iteration |-> i + k - 1, x |-> xs[k]]]
        over == SelectSeq(after, LAMBDA e : e.x > c.threshold)
    IN acc \o [k \in 1..Len(over) |->
                  [iteration |-> over[k].iteration,
                   intensity |-> ((over[k].x - c.threshold) * ChaosScale) \div (ChaosScale - c.threshold),
                   timestamp |-> [num |-> over[k].iteration, den |-> c.event_count]]]

\* faulty variant of LogisticMapEvents: the event list is kept between calls
LogisticMapEventsKept(c, seed) == chaos.events \o LogisticFrom(c, seed, 0, <<>>)

LogisticMapEvents(c, seed) == LogisticFrom(c, seed, 0, <<>>)

(***************************************************************************)
(* Ambient micro-patterns (written directly to the sink)                   *)
(***************************************************************************)
\* _add_thunder_roll; beat in ticks, intensity in 1/ChaosScale
ThunderRoll(track, beat, intensity) ==
    LET velocity == Trunc(60 * ChaosScale + intensity * 30, ChaosScale)
    IN [i \in 1..8 |-> NoteEv(track, 36, beat + (i - 1) * (Resolution \div 8), Resolution \div 4, velocity)]
       \o <<BendEv(track, beat, -4096), BendEv(track, beat + Resolution, 0)>>

\* _add_metallic_swell
MetallicSwell(track, beat, intensity) ==
    [i \in 1..12 |->
        NoteEv(track, 84 + ((i - 1) % 5), beat + (i - 1) * (Resolution \div 2), 2 * Resolution,
               Trunc(30 * 12 * ChaosScale + (i - 1) * intensity * 60, 12 * ChaosScale))]

\* _add_shimmer
Shimmer(track, beat, intensity) ==
    LET velocity == Trunc(35 * ChaosScale + intensity * 20, ChaosScale)
    IN [i \in 1..4 |->
        NoteEv(track, 72 + (i - 1) * 2, beat + (i - 1) * (Resolution \div 4), (3 * Resolution) \div 2, velocity)]

\* faulty variant of AmbientPattern: the swell test comes first
AmbientPatternSwellFirst(c, track, event) ==
    LET event_beat == Trunc(event.timestamp.num * BeatsTotal(c) * Resolution, event.timestamp.den)
    IN IF event.intensity > 700 THEN MetallicSwell(track, event_beat, event.intensity)
       ELSE IF event.intensity > 900 THEN ThunderRoll(track, event_beat, event.intensity)
       ELSE Shimmer(track, event_beat, event.intensity)

\* one event of _generate_ambient_events
AmbientPattern(c, track, event) ==
    LET event_beat == Trunc(event.timestamp.num * BeatsTotal(c) * Resolution, event.timestamp.den)
    IN IF event.intensity > 900 THEN ThunderRoll(track, event_beat, event.intensity)
       ELSE IF event.intensity > 700 THEN MetallicSwell(track, event_beat, event.intensity)
       ELSE Shimmer(track, event_beat, event.intensity)

\* the patterns of the events in order (the list is split in halves)
RECURSIVE AmbientAll(_, _, _)
AmbientAll(c, track, events) ==
    IF events = <<>> THEN <<>>
    ELSE IF Len(events) = 1 THEN AmbientPattern(c, track, events[1])
    ELSE LET half == Len(events) \div 2
         IN AmbientAll(c, track, SubSeq(events, 1, half))
            \o AmbientAll(c, track, SubSeq(events, half + 1, Len(events)))

\* _generate_ambient_events: everything it writes
AmbientEvents(c, track) == AmbientAll(c, track, LogisticMapEvents(c, c.chaos_seed))

(***************************************************************************)
(* create_chapter_midi: the four layers in the order of lines 182-185      *)
(***************************************************************************)
\* lines 182-185: the order of the layer calls in create_chapter_midi
LayerOrder == <<"harmonic", "melodic", "drones", "ambient">>

\* the position after the layer `layer` of the running call returned
After(layer) ==
    LET k == CHOOSE i \in 1..Len(order) : order[i] = layer
    IN IF k < Len(order) THEN order[k + 1] ELSE "done"

\* entry of a layer: its loop cursors start at 0; _generate_drones also sets
\* x, y, z = 0.1, 0.0, 0.0 (line 348)
Restart(next_pc) ==
    /\ pc' = next_pc
    /\ current_beat' = 0
    /\ idx' = 0
    /\ motif_i' = 0
    /\ lorenz' = IF next_pc = "drones" THEN <<ChaosScale \div 10, 0, 0>> ELSE lorenz

\* a submission of the running call to the polyphony manager
Submit(track, time, pitch, duration, velocity) ==
    LET r == EnforcePolyphonyLimit(active_notes, cfg.max_polyphony, track, time, pitch, duration, velocity)
    IN /\ active_notes' = r.active
       /\ midi' = midi \o r.written
       /\ last' = Call(track, time, pitch, duration, velocity, r)

\* lines 177-179: tempo and program of every track
ChapterHeader(c) ==
    <<TempoEv(0, c.tempo), ProgramEv(0, GmPatch(c, 0)),
      TempoEv(1, c.tempo), ProgramEv(1, GmPatch(c, 1)),
      TempoEv(2, c.tempo), ProgramEv(2, GmPatch(c, 2)),
      TempoEv(3, c.tempo), ProgramEv(3, GmPatch(c, 3))>>

Begin ==
    /\ pc = "start"
    /\ midi' = midi \o ChapterHeader(cfg)
    /\ Restart(order[1])
    /\ UNCHANGED <<cfg, active_notes, last, submitted, arc_in, arc_out,
                   order, draws, ref, chaos, theme, calls, fib, loader, gui>>

\* primes[... % len(primes)] with an empty list: ZeroDivisionError leaves the call
RaiseEmptyPrimes ==
    /\ pc \in {"harmonic", "melodic", "drones"}
    /\ current_beat < BeatsTotal(cfg)
    /\ cfg.prime_sequence = <<>>
    /\ pc' = "error"
    /\ UNCHANGED <<cfg, active_notes, midi, last, submitted, current_beat, idx, motif_i, lorenz, arc_in, arc_out,
                   order, draws, ref, chaos, theme, calls, fib, loader, gui>>

\* faulty variant of HarmonicChord: the next chord starts where the previous
\* chord stops sounding (95% of its length)
HarmonicChordSounding ==
    /\ pc = "harmonic"
    /\ current_beat < BeatsTotal(cfg)
    /\ cfg.prime_sequence # <<>>
    /\ LET prime == PrimeAt(cfg, idx)
           chord_length == cfg.h_base_duration + (prime % cfg.h_prime_mod_factor)
           root_idx == (idx * 2) % Len(cfg.scale)
           chord_notes == BuildChord(cfg, root_idx, prime)
           velocity == cfg.h_base_velocity + (prime % cfg.h_prime_mod_range)
       IN /\ midi' = midi \o [k \in 1..Len(chord_notes) |->
                                NoteEv(0, chord_notes[k], current_beat * Resolution,
                                       (chord_length * Resolution * 95) \div 100, velocity)]
          /\ current_beat' = current_beat + (chord_length * 95) \div 100
          /\ idx' = idx + 1
    /\ UNCHANGED <<pc, cfg, active_notes, last, submitted, motif_i, lorenz, arc_in, arc_out,
                   order, draws, ref, chaos, theme, calls, fib, loader, gui>>

\* _generate_harmonic_bed, one iteration of the while loop
HarmonicChord ==
    /\ pc = "harmonic"
    /\ current_beat < BeatsTotal(cfg)
    /\ cfg.prime_sequence # <<>>
    /\ LET prime == PrimeAt(cfg, idx)
           chord_length == cfg.h_base_duration + (prime % cfg.h_prime_mod_factor)
           root_idx == (idx * 2) % Len(cfg.scale)
           chord_notes == BuildChord(cfg, root_idx, prime)
           velocity == cfg.h_base_velocity + (prime % cfg.h_prime_mod_range)
       IN /\ midi' = midi \o [k \in 1..Len(chord_notes) |->
                                NoteEv(0, chord_notes[k], current_beat * Resolution,
                                       (chord_length * Resolution * 95) \div 100, velocity)]
          /\ current_beat' = current_beat + chord_length
          /\ idx' = idx + 1
    /\ UNCHANGED <<pc, cfg, active_notes, last, submitted, motif_i, lorenz, arc_in, arc_out,
                   order, draws, ref, chaos, theme, calls, fib, loader, gui>>

HarmonicDone ==
    /\ pc = "harmonic"
    /\ current_beat >= BeatsTotal(cfg)
    /\ Restart(After("harmonic"))
    /\ UNCHANGED <<cfg, active_notes, midi, last, submitted, arc_in, arc_out,
                   order, draws, ref, chaos, theme, calls, fib, loader, gui>>

\* _generate_melodic_texture: the while test and the per-statement values
MelodicStatement ==
    /\ pc = "melodic"
    /\ current_beat < BeatsTotal(cfg)
    /\ cfg.prime_sequence # <<>>
    /\ pc' = "motif_note"
    /\ motif_i' = 0
    /\ UNCHANGED <<cfg, active_notes, midi, last, submitted, current_beat, idx, lorenz, arc_in, arc_out,
                   order, draws, ref, chaos, theme, calls, fib, loader, gui>>

\* values of one motif note (lines 295-313), i counted from 0
RegisterShift(c, prime) == IF prime % c.motif_register_mod = 0 THEN 12 ELSE 0

\* note_time = current_beat + (i * 2) + ((prime % 3) * 0.1), in ticks
NoteTime(beat, i, prime) == beat * Resolution + i * 2 * Resolution + (prime % 3) * (Resolution \div 10)

\* duration_beats = fib_durations[i % len(fib_durations)] * fib_base_unit + 1.0, in ticks
DurationBeats(c, i) ==
    LET fib_durations == FibonacciSequence(c.fib_length)
    IN fib_durations[(i % Len(fib_durations)) + 1] * c.fib_base_unit_ticks + Resolution

MelodicVelocity(c, prime) == c.m_base_velocity + (prime % c.m_prime_mod_range)

\* lines 304-316: the motif note of index motif_i goes to the polyphony manager
MotifNote ==
    /\ pc = "motif_note"
    /\ motif_i < Len(cfg.motif_pattern)
    /\ LET prime == PrimeAt(cfg, idx)
           degree == cfg.motif_pattern[motif_i + 1]
           pitch == ScaleAt(cfg, degree) + RegisterShift(cfg, prime)
       IN Submit(1, NoteTime(current_beat, motif_i, prime), pitch,
                 DurationBeats(cfg, motif_i), MelodicVelocity(cfg, prime))
    /\ pc' = "ornament"
    /\ UNCHANGED <<cfg, submitted, current_beat, idx, motif_i, lorenz, arc_in, arc_out,
                   order, draws, ref, chaos, theme, calls, fib, loader, gui>>

\* faulty variant of Ornament: an ornament is possible at density 0 too
OrnamentAtAnyDensity ==
    /\ pc = "ornament"
    /\ LET prime == PrimeAt(cfg, idx)
           note_idx == cfg.motif_pattern[motif_i + 1] % Len(cfg.scale)
       IN /\ prime % cfg.motif_ornament_mod >= 0
          /\ Submit(1, NoteTime(current_beat, motif_i, prime) + Resolution \div 2,
                    ScaleAt(cfg, note_idx + 1) + RegisterShift(cfg, prime),
                    Resolution \div 2, MelodicVelocity(cfg, prime) - 10)
    /\ ref.done => ref.draws[Len(draws) + 1]
    /\ draws' = Append(draws, TRUE)
    /\ pc' = "motif_note"
    /\ motif_i' = motif_i + 1
    /\ UNCHANGED <<cfg, submitted, current_beat, idx, lorenz, arc_in, arc_out,
                   order, ref, chaos, theme, calls, fib, loader, gui>>

\* lines 319-324: np.random.random() < ornament_density came out true
Ornament ==
    /\ pc = "ornament"
    /\ LET prime == PrimeAt(cfg, idx)
           note_idx == cfg.motif_pattern[motif_i + 1] % Len(cfg.scale)
       IN /\ prime % cfg.motif_ornament_mod > 0
          /\ Submit(1, NoteTime(current_beat, motif_i, prime) + Resolution \div 2,
                    ScaleAt(cfg, note_idx + 1) + RegisterShift(cfg, prime),
                    Resolution \div 2, MelodicVelocity(cfg, prime) - 10)
    /\ ref.done => ref.draws[Len(draws) + 1]
    /\ draws' = Append(draws, TRUE)
    /\ pc' = "motif_note"
    /\ motif_i' = motif_i + 1
    /\ UNCHANGED <<cfg, submitted, current_beat, idx, lorenz, arc_in, arc_out,
                   order, ref, chaos, theme, calls, fib, loader, gui>>

\* the draw came out false (always possible: ornament_density < 1)
NoOrnament ==
    /\ pc = "ornament"
    /\ ref.done => ~ref.draws[Len(draws) + 1]
    /\ draws' = Append(draws, FALSE)
    /\ pc' = "motif_note"
    /\ motif_i' = motif_i + 1
    /\ UNCHANGED <<cfg, active_notes, midi, last, submitted, current_beat, idx, lorenz, arc_in, arc_out,
                   order, ref, chaos, theme, calls, fib, loader, gui>>

\* motif_interval_beats = int(self.motif_interval * beats_per_minute)
MotifIntervalBeats == Trunc(cfg.motif_interval * cfg.tempo, cfg.motif_interval_den)

\* lines 326-327: end of the statement
MelodicAdvance ==
    /\ pc = "motif_note"
    /\ motif_i >= Len(cfg.motif_pattern)
    /\ pc' = "melodic"
    /\ current_beat' = current_beat + MotifIntervalBeats
    /\ idx' = idx + 1
    /\ UNCHANGED <<cfg, active_notes, midi, last, submitted, motif_i, lorenz, arc_in, arc_out,
                   order, draws, ref, chaos, theme, calls, fib, loader, gui>>

MelodicDone ==
    /\ pc = "melodic"
    /\ current_beat >= BeatsTotal(cfg)
    /\ Restart(After("melodic"))
    /\ UNCHANGED <<cfg, active_notes, midi, last, submitted, arc_in, arc_out,
                   order, draws, ref, chaos, theme, calls, fib, loader, gui>>

RECURSIVE DroneSweepEmittedOnly(_, _, _, _, _, _)
\* faulty variant of DroneSweep: a suppressed slot does not advance the Lorenz state
DroneSweepEmittedOnly(c, beat, i, n, s, acc) ==
    IF i >= n THEN [lorenz |-> s, written |-> acc]
    ELSE LET ns == LorenzStep(c, s)
             cc_time == beat + i * c.cc_event_interval
         IN IF cc_time < BeatsTotal(c)
            THEN DroneSweepEmittedOnly(c, beat, i + 1, n, ns,
                     Append(acc, CcEv(2, cc_time * Resolution, 74, Brightness(ns[1]))))
            ELSE DroneSweepEmittedOnly(c, beat, i + 1, n, s, acc)

\* lines 365-372: controller slots i..n-1 of one drone; the Lorenz state and
\* the events written
RECURSIVE DroneSweep(_, _, _, _, _, _)
DroneSweep(c, beat, i, n, s, acc) ==
    IF i >= n THEN [lorenz |-> s, written |-> acc]
    ELSE LET ns == LorenzStep(c, s)
             cc_time == beat + i * c.cc_event_interval
         IN DroneSweep(c, beat, i + 1, n, ns,
                IF cc_time < BeatsTotal(c)
                THEN Append(acc, CcEv(2, cc_time * Resolution, 74, Brightness(ns[1])))
                ELSE acc)

\* faulty variant of Drone: the prime index is wrapped in place
DroneWrappedIndex ==
    /\ pc = "drones"
    /\ current_beat < BeatsTotal(cfg)
    /\ cfg.prime_sequence # <<>>
    /\ LET prime == PrimeAt(cfg, idx)
           drone_length == prime * cfg.duration_multiplier
           root_note == cfg.scale[1] - 24
           sweep == DroneSweep(cfg, current_beat, 0, drone_length \div cfg.cc_event_interval, lorenz, <<>>)
           actual_duration == Min2(drone_length, BeatsTotal(cfg) - current_beat)
           r == EnforcePolyphonyLimit(active_notes, cfg.max_polyphony, 2, current_beat * Resolution,
                                      root_note, actual_duration * Resolution, cfg.drone_velocity)
       IN /\ lorenz' = sweep.lorenz
          /\ active_notes' = r.active
          /\ midi' = midi \o sweep.written \o r.written
          /\ last' = Call(2, current_beat * Resolution, root_note, actual_duration * Resolution,
                          cfg.drone_velocity, r)
          /\ current_beat' = current_beat + drone_length
          /\ idx' = (idx + 1) % Len(cfg.prime_sequence)
    /\ UNCHANGED <<pc, cfg, submitted, motif_i, arc_in, arc_out, order, draws, ref, chaos, theme, calls, fib, loader, gui>>

\* _generate_drones, one iteration of the while loop
Drone ==
    /\ pc = "drones"
    /\ current_beat < BeatsTotal(cfg)
    /\ cfg.prime_sequence # <<>>
    /\ LET prime == PrimeAt(cfg, idx)
           drone_length == prime * cfg.duration_multiplier
           root_note == cfg.scale[1] - 24
           sweep == DroneSweep(cfg, current_beat, 0, drone_length \div cfg.cc_event_interval, lorenz, <<>>)
           actual_duration == Min2(drone_length, BeatsTotal(cfg) - current_beat)
           r == EnforcePolyphonyLimit(active_notes, cfg.max_polyphony, 2, current_beat * Resolution,
                                      root_note, actual_duration * Resolution, cfg.drone_velocity)
       IN /\ lorenz' = sweep.lorenz
          /\ active_notes' = r.active
          /\ midi' = midi \o sweep.written \o r.written
          /\ last' = Call(2, current_beat * Resolution, root_note, actual_duration * Resolution,
                          cfg.drone_velocity, r)
          /\ current_beat' = current_beat + drone_length
          /\ idx' = idx + 1
    /\ UNCHANGED <<pc, cfg, submitted, motif_i, arc_in, arc_out, order, draws, ref, chaos, theme, calls, fib, loader, gui>>

DronesDone ==
    /\ pc = "drones"
    /\ current_beat >= BeatsTotal(cfg)
    /\ Restart(After("drones"))
    /\ UNCHANGED <<cfg, active_notes, midi, last, submitted, arc_in, arc_out,
                   order, draws, ref, chaos, theme, calls, fib, loader, gui>>

\* faulty variant of Ambient: the ambient Notes are entered in active_notes
AmbientTracked ==
    /\ pc = "ambient"
    /\ midi' = midi \o AmbientEvents(cfg, 3)
    /\ active_notes' = active_notes \o
           [k \in 1..Len(SelectSeq(AmbientEvents(cfg, 3), LAMBDA e : e.kind = "note")) |->
               LET e == SelectSeq(AmbientEvents(cfg, 3), LAMBDA n : n.kind = "note")[k]
               IN Entry(3, e.time, e.pitch, e.duration)]
    /\ Restart(After("ambient"))
    /\ UNCHANGED <<cfg, last, submitted, arc_in, arc_out,
                   order, draws, ref, chaos, theme, calls, fib, loader, gui>>

\* _generate_ambient_events, then return midi
Ambient ==
    /\ pc = "ambient"
    /\ midi' = midi \o AmbientEvents(cfg, 3)
    /\ Restart(After("ambient"))
    /\ UNCHANGED <<cfg, active_notes, last, submitted, arc_in, arc_out,
                   order, draws, ref, chaos, theme, calls, fib, loader, gui>>

(***************************************************************************)
(* Spec: one chapter on a freshly constructed Composer                     *)
(***************************************************************************)
\* longest chapter, in half minutes
MaxHalfMinutes == 2

\* style configurations the loader accepts (ThemeLoader._validate checks only
\* sections, the mode name, 'intervals' and the patch numbers)
Themes ==
    {DefaultComposer,
     [DefaultComposer EXCEPT !.h_base_velocity = 127],
     [DefaultComposer EXCEPT !.m_base_velocity = 5],
     [DefaultComposer EXCEPT !.scale = BuildScale("D_dorian", CustomScale(<<12, 14, 15, 17, 19, 21, 22, 24>>))],
     [DefaultComposer EXCEPT !.scale = BuildScale("D_dorian", CustomScale(<<108, 110, 111, 113, 115, 117, 118, 120>>))]}

Ceilings == {1, 2, 32}

PrimeSequences == {<<>>, <<2, 3>>, <<3, 5, 7>>}

ChaosSeeds == {500, 730}

Requests ==
    {[t EXCEPT !.max_polyphony = m, !.duration_half_minutes = d,
               !.prime_sequence = p, !.chaos_seed = s] :
        t \in Themes, m \in Ceilings, d \in (-1)..MaxHalfMinutes,
        p \in PrimeSequences, s \in ChaosSeeds}

\* the theme of generate_test_midi.py: a legacy single tempo value, no
\* ensemble_gm section, every other section absent (constructor defaults)
SampleTheme ==
    [DefaultComposer EXCEPT !.tempo = 80, !.ensemble_gm = <<Absent, Absent, Absent, Absent>>]

\* generate_test_midi.py lines 36-42: duration_minutes=2, [2, 3, 5, 7, 11], 0.5
SampleRequest ==
    [SampleTheme EXCEPT !.duration_half_minutes = 4, !.prime_sequence = <<2, 3, 5, 7, 11>>,
                        !.chaos_seed = 500]

\* the same call under a theme whose chaos section makes the Lorenz x leave
\* [-20, 20] on both sides within the chapter (sigma 56, rho 42)
StrongLorenzRequest ==
    [SampleRequest EXCEPT !.lorenz_sigma = 56000, !.lorenz_rho = 42000]

\* a chapter of two minutes under a theme with short chords (8 beats plus
\* prime mod 3) and a motif statement every minute, primes [2, 5, 3]
DenseRequest ==
    [DefaultComposer EXCEPT !.h_base_duration = 8, !.h_prime_mod_factor = 3, !.motif_interval = 1,
                            !.duration_half_minutes = 4, !.prime_sequence = <<2, 5, 3>>,
                            !.chaos_seed = 500]

\* the dense chapter under harmony rules that name a variation ('variation'),
\* give a variation interval set ('variation_intervals'), or both
VariationRequests ==
    {[DenseRequest EXCEPT !.harmony_variation = tag,
                          !.variation_intervals_given = given,
                          !.harmony_variation_intervals = IF given THEN <<0, 1, 5>> ELSE <<0, 2, 4>>] :
        tag \in BOOLEAN, given \in BOOLEAN}

\* the sample chapter under a theme whose logistic growth rate (3.99) lets the
\* map come close to 1: thunder rolls, swells and shimmers all occur
ThunderRequest == [SampleRequest EXCEPT !.logistic_r = 3990]

NoArcIn == [type |-> "", total_chapters |-> 0, chapter |-> 0, climax_chapter |-> 0,
            min_intensity |-> 0, max_intensity |-> 0]

NoArcOut == [returned |-> FALSE, raised |-> FALSE, num |-> 0, den |-> 1]

\* no reference call was recorded
NoRef == [done |-> FALSE, midi |-> <<>>, draws |-> <<>>, active |-> <<>>]

\* the GUI after start: no generation run, no temporary theme file
NoGui == [runs |-> <<>>, files |-> [theme |-> "missing", events |-> "missing"]]

\* no _merge_with_defaults call was made
NoLoader == [called |-> FALSE]

\* no _fibonacci_sequence call was made
NoFib == [n |-> 0, out |-> <<>>, done |-> FALSE]

\* no _logistic_map_events call was made
NoChaos == [calls |-> 0, events |-> <<>>, previous |-> <<>>, other |-> FALSE]

\* no style configuration was handed over
NoTheme == [modal_center |-> "", custom_scale |-> NoScale,
            tempo |-> [kind |-> "absent", base |-> Absent], max_polyphony |-> Absent]

\* state shared by every specification's initial condition
Fresh ==
    /\ active_notes = <<>>
    /\ midi = <<>>
    /\ last = NoCall
    /\ submitted = <<>>
    /\ current_beat = 0
    /\ idx = 0
    /\ motif_i = 0
    /\ lorenz = <<0, 0, 0>>
    /\ order = LayerOrder
    /\ draws = <<>>
    /\ ref = NoRef
    /\ chaos = NoChaos
    /\ theme = NoTheme
    /\ calls = <<>>
    /\ fib = NoFib
    /\ loader = NoLoader
    /\ gui = NoGui

Init ==
    /\ pc = "start"
    /\ cfg \in Requests \cup {SampleRequest, StrongLorenzRequest, DenseRequest, ThunderRequest}
               \cup VariationRequests
    /\ Fresh
    /\ arc_in = NoArcIn
    /\ arc_out = NoArcOut

Next ==
    \/ Begin
    \/ RaiseEmptyPrimes
    \/ HarmonicChord
    \/ HarmonicDone
    \/ MelodicStatement
    \/ MotifNote
    \/ Ornament
    \/ NoOrnament
    \/ MelodicAdvance
    \/ MelodicDone
    \/ Drone
    \/ DronesDone
    \/ Ambient

Spec == Init /\ [][Next]_vars

(***************************************************************************)
(* SpecPoly: the polyphony manager under arbitrary submissions             *)
(***************************************************************************)
MaxCeiling == 2

MaxSubmits == 3

\* onsets and durations are whole ticks here
MaxOnset == 1

MaxHold == 2

InitPoly ==
    /\ pc = "poly"
    /\ cfg \in {[DefaultComposer EXCEPT !.max_polyphony = m] : m \in (-1)..MaxCeiling}
    /\ Fresh
    /\ arc_in = NoArcIn
    /\ arc_out = NoArcOut

\* one call of _enforce_polyphony_limit; the k-th submission carries pitch 60 + k
SubmitAny ==
    /\ pc = "poly"
    /\ Len(submitted) < MaxSubmits
    /\ \E track \in {1, 2}, time \in 0..MaxOnset, duration \in 0..MaxHold :
          /\ Submit(track, time, 60 + Len(submitted), duration, 64)
          /\ submitted' = Append(submitted, [track |-> track, time |-> time,
                                              pitch |-> 60 + Len(submitted),
                                              duration |-> duration, velocity |-> 64])
    /\ UNCHANGED <<pc, cfg, current_beat, idx, motif_i, lorenz, arc_in, arc_out,
                   order, draws, ref, chaos, theme, calls, fib, loader, gui>>

NextPoly == SubmitAny

SpecPoly == InitPoly /\ [][NextPoly]_vars

(***************************************************************************)
(* SpecArc: calculate_chapter_intensity                                    *)
(***************************************************************************)
MaxChapters == 12

ArcTypes == {"parabolic", "slow_burn", "descending", "flat", "spiral"}

\* min_intensity and max_intensity, in tenths
Levels == {0, 2, 8, 10}

\* faulty variant of ParabolicArc: the peak sits at the middle of the composition
ParabolicArcMid(chapter, total_chapters, climax_chapter) ==
    2 * (total_chapters - 1) - 2 * Abs(2 * chapter - (total_chapters - 1))

\* line 499-500, as a multiple of 1/(2 * (total_chapters - 1)):
\* arc = 1 - abs(normalized - climax_normalized) * 2
ParabolicArc(chapter, total_chapters, climax_chapter) ==
    2 * (total_chapters - 1) - 4 * Abs(chapter - climax_chapter)

\* lines 497-512: arc as a multiple of 1/(2 * (total_chapters - 1))
Arc(a, climax_chapter) ==
    LET n == a.total_chapters - 1 IN
    IF a.type = "parabolic" THEN ParabolicArc(a.chapter, a.total_chapters, climax_chapter)
    ELSE IF a.type = "slow_burn" THEN 2 * a.chapter
    ELSE IF a.type = "descending" THEN 2 * n - 2 * a.chapter
    ELSE IF a.type = "flat" THEN n
    ELSE 2 * n - 2 * Abs(2 * a.chapter - n)

\* line 493: arc_config.get('climax_chapter', total_chapters // 2)
ClimaxOf(a) == IF a.climax_chapter = Absent THEN a.total_chapters \div 2 ELSE a.climax_chapter

\* the whole function: raised (ZeroDivisionError at line 495) or the intensity
\* num/den in tenths
CalculateChapterIntensity(a) ==
    LET climax_chapter == ClimaxOf(a)
        den == 2 * (a.total_chapters - 1)
    IN IF a.total_chapters - 1 = 0
       THEN [returned |-> FALSE, raised |-> TRUE, num |-> 0, den |-> 1]
       ELSE [returned |-> TRUE, raised |-> FALSE,
             num |-> a.min_intensity * den + (a.max_intensity - a.min_intensity) * Clip(Arc(a, climax_chapter), 0, den),
             den |-> den]

ArcInputs ==
    {[type |-> ty, total_chapters |-> t, chapter |-> c, climax_chapter |-> k,
      min_intensity |-> lo, max_intensity |-> hi] :
        ty \in ArcTypes, t \in 1..MaxChapters, c \in 0..(MaxChapters - 1),
        k \in Absent..(MaxChapters - 1), lo \in Levels, hi \in Levels}

InitArc ==
    /\ pc = "arc"
    /\ arc_in \in {a \in ArcInputs : a.chapter < a.total_chapters /\ a.climax_chapter < a.total_chapters}
    /\ arc_out = NoArcOut
    /\ cfg = DefaultComposer
    /\ Fresh

Compute ==
    /\ pc = "arc"
    /\ arc_out' = CalculateChapterIntensity(arc_in)
    /\ pc' = "arc_done"
    /\ UNCHANGED <<cfg, active_notes, midi, last, submitted, current_beat, idx, motif_i, lorenz, arc_in,
                   order, draws, ref, chaos, theme, calls, fib, loader, gui>>

NextArc == Compute

SpecArc == InitArc /\ [][NextArc]_vars

(***************************************************************************)
(* Properties of the polyphony manager (SpecPoly)                          *)
(***************************************************************************)
SubmittedEntry(k) ==
    Entry(submitted[k].track, submitted[k].time, submitted[k].pitch, submitted[k].duration)

SubmittedNote(k) ==
    NoteEv(submitted[k].track, submitted[k].pitch, submitted[k].time,
           submitted[k].duration, submitted[k].velocity)

\* the submissions so far share one onset and have positive durations
Simultaneous ==
    \A k \in 1..Len(submitted) :
        submitted[k].time = submitted[1].time /\ submitted[k].duration > 0

\* the last submission found the set full after the prune
StoleVoice == last.called /\ Len(last.pruned) >= cfg.max_polyphony

\* C1: with a polyphony ceiling >= 1 the Active-Note Set holds at most
\* `ceiling` entries after every submission, whatever the onsets, durations
\* and tracks submitted (onsets need not be monotonic).
C1_ActiveWithinCeiling ==
    cfg.max_polyphony >= 1 => Len(active_notes) <= cfg.max_polyphony

\* C1 witness: a full set, reached by a voice-stealing submission whose onset
\* lies before the onset of the submission preceding it.
C1_Witness ==
    /\ cfg.max_polyphony >= 1
    /\ StoleVoice
    /\ Len(active_notes) = cfg.max_polyphony
    /\ Len(submitted) >= 2
    /\ submitted[Len(submitted)].time < submitted[Len(submitted) - 1].time

\* C2: a submission that finds the set full after the prune evicts exactly the
\* entry at position 0 and appends the new note last; so ceiling+1 notes of one
\* onset and positive durations, submitted to an empty set, leave exactly the
\* entries of submissions 2..ceiling+1, in submission order.
C2_FifoVoiceStealing ==
    /\ (cfg.max_polyphony >= 1 /\ StoleVoice) =>
          active_notes = Append(Tail(last.pruned),
                                Entry(last.track, last.time, last.pitch, last.duration))
    /\ (cfg.max_polyphony >= 1 /\ Len(submitted) = cfg.max_polyphony + 1 /\ Simultaneous) =>
          active_notes = [k \in 1..cfg.max_polyphony |-> SubmittedEntry(k + 1)]

\* C2 witness: ceiling+1 simultaneous notes with ceiling >= 2, the first of
\* them ending after the second: the evicted entry is not the one ending first.
C2_Witness ==
    /\ cfg.max_polyphony >= 2
    /\ Len(submitted) = cfg.max_polyphony + 1
    /\ Simultaneous
    /\ StoleVoice
    /\ submitted[1].duration > submitted[2].duration

InMidiRange(v) == v >= 0 /\ v <= 127

\* the Notes of the gated layers (melodic texture, drones) in the sink
GatedNotes == SelectSeq(midi, LAMBDA e : e.kind = "note" /\ e.track \in {1, 2})

Sounding(n, t) == n.time <= t /\ t < n.time + n.duration

\* C4: every Note written by the harmonic-bed, melodic-texture, drone and
\* ambient generators has pitch and velocity in [0,127], for every accepted
\* configuration.
C4_NotesInMidiRange ==
    \A k \in 1..Len(midi) :
        midi[k].kind = "note" => (InMidiRange(midi[k].pitch) /\ InMidiRange(midi[k].value))

\* C5: at every time t the number of gated Notes sounding at t, as written to
\* the sink, is at most the polyphony ceiling (sampled at every gated onset,
\* where the count is largest).
C5_SoundingWithinCeiling ==
    cfg.max_polyphony >= 1 =>
        LET g == GatedNotes IN
        \A k \in 1..Len(g) :
            Cardinality({j \in 1..Len(g) : Sounding(g[j], g[k].time)}) <= cfg.max_polyphony

\* C6: right after the prune of a submission with onset t, every entry of the
\* Active-Note Set is a note sounding at t: its end-time is after t and it was
\* submitted with an onset <= t.
C6_PrunedSetIsSounding ==
    last.called =>
        \A k \in 1..Len(last.pruned) :
            /\ last.pruned[k].end > last.time
            /\ \E j \in 1..Len(GatedNotes) :
                  /\ Entry(GatedNotes[j].track, GatedNotes[j].time, GatedNotes[j].pitch,
                           GatedNotes[j].duration) = last.pruned[k]
                  /\ GatedNotes[j].time <= last.time

\* C7: with an empty prime sequence and a positive duration the call fails, and
\* it fails before anything was emitted to the sink.
C7_EmptyPrimesRejectedFirst ==
    (cfg.prime_sequence = <<>> /\ cfg.duration_half_minutes > 0) =>
        /\ pc # "done"
        /\ pc = "error" => midi = <<>>

\* C8: with duration_minutes <= 0 and a non-empty prime sequence the call
\* completes without error and the sink holds nothing but the tempo and
\* program events.
C8_NonPositiveDurationEmpty ==
    (cfg.duration_half_minutes <= 0 /\ cfg.prime_sequence # <<>>) =>
        /\ pc # "error"
        /\ pc = "done" => \A k \in 1..Len(midi) : midi[k].kind \in {"tempo", "program"}

C10_IntensityInRange ==
    (/\ pc = "arc_done"
     /\ arc_in.total_chapters >= 1
     /\ arc_in.min_intensity <= arc_in.max_intensity) =>
        /\ arc_out.returned
        /\ arc_in.min_intensity * arc_out.den <= arc_out.num
        /\ arc_out.num <= arc_in.max_intensity * arc_out.den

\* C11: for an arc type that is none of the named ones the function returns
\* what it returns for type 'parabolic' with the same chapter, total, min, max
\* and climax_chapter.
C11_UnknownFallsBackToParabolic ==
    (pc = "arc_done" /\ arc_in.type \notin {"parabolic", "slow_burn", "descending", "flat"}) =>
        arc_out = CalculateChapterIntensity([arc_in EXCEPT !.type = "parabolic"])

(***************************************************************************)
(* Properties of the sample chapter of generate_test_midi.py (Spec)        *)
(***************************************************************************)
\* the Notes of one track in the sink, in emission order
TrackNotes(track) == SelectSeq(midi, LAMBDA e : e.kind = "note" /\ e.track = track)

\* chord k (from 1) of the harmonic bed: its first Note, and its chord_length
\* (line 233) in beats
ChordHead(k) == TrackNotes(0)[(k - 1) * Len(cfg.harmony_intervals) + 1]

ChordLengthAt(k) == cfg.h_base_duration + (PrimeAt(cfg, k - 1) % cfg.h_prime_mod_factor)

ChordCount == Len(TrackNotes(0)) \div Len(cfg.harmony_intervals)

\* C12: the 2-minute chapter at tempo 80 with primes [2,3,5,7,11] and seed 0.5
\* has 160 beats, ends with at least one Note on each of tracks 0..3, and its
\* harmonic bed starts at beat 0, each next chord starting where the previous
\* chord's length ends, the last chord starting at or after beats_total minus
\* the longest chord length (base_duration + prime_mod_factor - 1).
C12_SampleChapterCovered ==
    cfg = SampleRequest =>
        /\ BeatsTotal(cfg) = 160
        /\ pc = "done" => \A track \in 0..3 : Len(TrackNotes(track)) >= 1
        /\ ChordCount >= 1 => ChordHead(1).time = 0
        /\ \A k \in 1..(ChordCount - 1) :
              ChordHead(k + 1).time = ChordHead(k).time + ChordLengthAt(k) * Resolution
        /\ pc \notin {"start", "harmonic"} =>
              /\ ChordCount >= 1
              /\ ChordHead(ChordCount).time >=
                    (160 - (cfg.h_base_duration + cfg.h_prime_mod_factor - 1)) * Resolution

\* C12 witness: the sample chapter finished, with five chords of which the
\* last starts at beat 145.
C12_Witness ==
    /\ cfg = SampleRequest
    /\ pc = "done"
    /\ ChordCount = 5
    /\ ChordHead(5).time = 145 * Resolution
    /\ \A track \in 0..3 : Len(TrackNotes(track)) >= 1

(***************************************************************************)
(* Properties of the emission order of one chapter (Spec)                  *)
(***************************************************************************)
\* C13: for any two events (Note, controller or pitch-bend) of one track, the
\* one emitted later carries a time >= the time of the one emitted earlier.
C13_TrackTimeOrder ==
    \A i, j \in 1..Len(midi) :
        (/\ i < j
         /\ midi[i].track = midi[j].track
         /\ midi[i].kind \in {"note", "cc", "bend"}
         /\ midi[j].kind \in {"note", "cc", "bend"}) => midi[i].time <= midi[j].time

(***************************************************************************)
(* SpecOrder: a chapter generated in the order of create_chapter_midi, and *)
(* then the same chapter request on a freshly constructed Composer with    *)
(* the four layer calls in another order and the same ornament draws       *)
(***************************************************************************)
\* a theme with a two-note motif
PairMotifTheme == [DefaultComposer EXCEPT !.motif_pattern = <<0, 2>>]

OrderCeilings == {0, 1, 2}

OrderHalfMinutes == 0..MaxHalfMinutes

OrderRequests ==
    {[PairMotifTheme EXCEPT !.max_polyphony = m, !.duration_half_minutes = d, !.prime_sequence = p] :
        m \in OrderCeilings, d \in OrderHalfMinutes, p \in PrimeSequences}

\* the orders in which the four layer calls of lines 182-185 can be made
LayerOrders ==
    {o \in [1..4 -> {LayerOrder[k] : k \in 1..4}] : \A i, j \in 1..4 : i # j => o[i] # o[j]}

InitOrder ==
    /\ pc = "start"
    /\ cfg \in OrderRequests
    /\ Fresh
    /\ arc_in = NoArcIn
    /\ arc_out = NoArcOut

\* the reference call returned: its result is kept, and the request is run
\* again on a new Composer (empty active_notes, new MIDIFile) in some order
Rerun ==
    /\ pc = "done"
    /\ ~ref.done
    /\ ref' = [done |-> TRUE, midi |-> midi, draws |-> draws, active |-> active_notes]
    /\ order' \in LayerOrders
    /\ pc' = "start"
    /\ active_notes' = <<>>
    /\ midi' = <<>>
    /\ last' = NoCall
    /\ draws' = <<>>
    /\ current_beat' = 0
    /\ idx' = 0
    /\ motif_i' = 0
    /\ lorenz' = <<0, 0, 0>>
    /\ UNCHANGED <<cfg, submitted, arc_in, arc_out, chaos, theme, calls, fib, loader, gui>>

NextOrder ==
    \/ Next
    \/ Rerun

SpecOrder == InitOrder /\ [][NextOrder]_vars

\* how often the event e was emitted to the sink s
Emissions(s, e) == Cardinality({i \in 1..Len(s) : s[i] = e})

\* the events of one track form the same multiset in the sinks s and t
SameTrackEvents(s, t, track) ==
    /\ \A i \in 1..Len(s) : s[i].track = track => Emissions(s, s[i]) = Emissions(t, s[i])
    /\ \A i \in 1..Len(t) : t[i].track = track => Emissions(t, t[i]) = Emissions(s, t[i])

\* C14: when the four layers were run in any order on a fresh Composer, with
\* the chapter request and the ornament draws of a call made in the order of
\* create_chapter_midi, each track holds the same multiset of events as after
\* that call.
C14_LayerOrderIrrelevant ==
    (ref.done /\ pc = "done") =>
        /\ draws = ref.draws
        /\ \A track \in 0..3 : SameTrackEvents(midi, ref.midi, track)

\* C14 witness: the layers ran in the reverse order with one voice; melodic
\* notes and ornaments, drones and ambient events were emitted, and the
\* Active-Note Set ends differently from the reference call's.
C14_Witness ==
    /\ ref.done
    /\ pc = "done"
    /\ order = <<"ambient", "drones", "melodic", "harmonic">>
    /\ cfg.max_polyphony = 1
    /\ \E k \in 1..Len(draws) : draws[k]
    /\ \A track \in 0..3 : Len(TrackNotes(track)) >= 1
    /\ active_notes # ref.active

\* positions in the sink of the events of the given kinds on one track
Positions(track, kinds) ==
    {i \in 1..Len(midi) : midi[i].track = track /\ midi[i].kind \in kinds}

\* C15: a call that has started has emitted, for each track 0..3, exactly one
\* tempo event carrying the Composer's tempo and exactly one program event
\* carrying the layer's configured patch (89 when none is configured), both at
\* beat 0, and all eight precede every Note, controller and pitch-bend event.
C15_HeaderOncePerTrackFirst ==
    /\ pc = "start" => midi = <<>>
    /\ pc # "start" =>
          /\ \A track \in 0..3 :
                /\ Cardinality(Positions(track, {"tempo"})) = 1
                /\ Cardinality(Positions(track, {"program"})) = 1
                /\ \A i \in Positions(track, {"tempo"}) :
                      midi[i].time = 0 /\ midi[i].value = cfg.tempo
                /\ \A i \in Positions(track, {"program"}) :
                      /\ midi[i].time = 0
                      /\ midi[i].value = IF cfg.ensemble_gm[track + 1] = Absent
                                         THEN 89 ELSE cfg.ensemble_gm[track + 1]
          /\ \A i, j \in 1..Len(midi) :
                (midi[i].kind \in {"tempo", "program"} /\ midi[j].kind \in {"note", "cc", "bend"}) => i < j

\* C15 witness: a finished chapter of a theme without configured patches, with
\* Notes and controller events after the header.
C15_Witness ==
    /\ pc = "done"
    /\ cfg.ensemble_gm[2] = Absent
    /\ \E i \in Positions(1, {"program"}) : midi[i].value = 89
    /\ Positions(2, {"cc"}) # {}
    /\ Positions(3, {"note"}) # {}

(***************************************************************************)
(* SpecLogistic: _logistic_map_events called on a Composer, and called     *)
(* again with the same arguments on that Composer or on another one        *)
(***************************************************************************)
\* logistic_r in (0, 4], in 1/ChaosScale
LogisticRs == {1000, 2500, 3860, 4000}

\* seeds in [0, 1)
LogisticSeeds == {0, 250, 500, 730, 999}

\* thresholds < 1
LogisticThresholds == {-500, 0, 500, 870, 999}

\* n
LogisticCounts == {0, 1, 16, 64}

\* Composers that differ in fields _logistic_map_events does not read
LogisticTempos == {58, 80}

LogisticComposers ==
    {[DefaultComposer EXCEPT !.logistic_r = r, !.chaos_seed = s, !.threshold = t,
                             !.event_count = n, !.tempo = b] :
        r \in LogisticRs, s \in LogisticSeeds, t \in LogisticThresholds,
        n \in LogisticCounts, b \in LogisticTempos}

\* the arguments (seed, r, threshold, n) of a call on Composer c
LogisticArgs(c) == <<c.chaos_seed, c.logistic_r, c.threshold, c.event_count>>

InitLogistic ==
    /\ pc = "logistic"
    /\ cfg \in LogisticComposers
    /\ Fresh
    /\ arc_in = NoArcIn
    /\ arc_out = NoArcOut

\* the first call
LogisticFirst ==
    /\ pc = "logistic"
    /\ chaos.calls = 0
    /\ chaos' = [calls |-> 1, events |-> LogisticMapEvents(cfg, cfg.chaos_seed),
                 previous |-> <<>>, other |-> FALSE]
    /\ UNCHANGED <<pc, cfg, active_notes, midi, last, submitted, current_beat, idx, motif_i, lorenz,
                   arc_in, arc_out, order, draws, ref, theme, calls, fib, loader, gui>>

\* the second call, with the same arguments, on the same or on another Composer
LogisticAgain ==
    /\ pc = "logistic"
    /\ chaos.calls = 1
    /\ \E c \in LogisticComposers :
          /\ LogisticArgs(c) = LogisticArgs(cfg)
          /\ cfg' = c
          /\ chaos' = [calls |-> 2, events |-> LogisticMapEvents(c, c.chaos_seed),
                       previous |-> chaos.events, other |-> c # cfg]
    /\ UNCHANGED <<pc, active_notes, midi, last, submitted, current_beat, idx, motif_i, lorenz,
                   arc_in, arc_out, order, draws, ref, theme, calls, fib, loader, gui>>

NextLogistic ==
    \/ LogisticFirst
    \/ LogisticAgain

SpecLogistic == InitLogistic /\ [][NextLogistic]_vars

C17_ControllerEventsBounded ==
    \A i \in 1..Len(midi) :
        midi[i].kind = "cc" =>
            /\ midi[i].track = 2
            /\ midi[i].pitch = 74
            /\ InMidiRange(midi[i].value)
            /\ 30 <= midi[i].value /\ midi[i].value <= 100
            /\ 0 <= midi[i].time /\ midi[i].time < BeatsTotal(cfg) * Resolution

\* C17 witness: the chapter whose Lorenz x passes +20 and -20: controller
\* values 100 and 30 were emitted, and of the 45 controller slots of its nine
\* drones the 5 slots at or after beat 160 emitted nothing.
C17_Witness ==
    /\ cfg = StrongLorenzRequest
    /\ pc = "done"
    /\ \E i \in Positions(2, {"cc"}) : midi[i].value = 100
    /\ \E i \in Positions(2, {"cc"}) : midi[i].value = 30
    /\ Cardinality(Positions(2, {"cc"})) = 40
    /\ Cardinality(Positions(2, {"note"})) = 9

(***************************************************************************)
(* SpecBuild: RetroMIDIComposer.__init__ on a style configuration          *)
(***************************************************************************)
\* modal_center tags: the three built-in modes and one the table does not hold
ModeTags == {"D_dorian", "A_aeolian", "E_phrygian", "C_lydian"}

\* custom_scale: absent, or a list (ThemeLoader._validate accepts any value
\* under the key)
CustomScales ==
    {NoScale, CustomScale(<<>>), CustomScale(<<60>>),
     CustomScale(<<60, 62, 63, 65, 67, 68, 70, 72>>)}

\* theme_config.get('tempo', {}): absent, a dict with or without 'base', or a
\* legacy single number
TempoConfigs ==
    {[kind |-> "absent", base |-> Absent], [kind |-> "dict", base |-> Absent],
     [kind |-> "dict", base |-> 72], [kind |-> "number", base |-> 80],
     [kind |-> "number", base |-> 0]}

\* the max_polyphony argument: None or a number
PolyphonyArgs == {Absent, 18, 32}

\* lines 29-36
BuildTempo(tempo_config) ==
    IF tempo_config.kind = "number"
    THEN IF tempo_config.base = 0 THEN 58 ELSE tempo_config.base
    ELSE IF tempo_config.kind = "dict" /\ tempo_config.base # Absent THEN tempo_config.base
    ELSE 58

InitBuild ==
    /\ pc = "build"
    /\ cfg = DefaultComposer
    /\ active_notes = <<>>
    /\ midi = <<>>
    /\ last = NoCall
    /\ submitted = <<>>
    /\ current_beat = 0
    /\ idx = 0
    /\ motif_i = 0
    /\ lorenz = <<0, 0, 0>>
    /\ order = LayerOrder
    /\ draws = <<>>
    /\ ref = NoRef
    /\ chaos = NoChaos
    /\ calls = <<>>
    /\ fib = NoFib
    /\ loader = NoLoader
    /\ gui = NoGui
    /\ arc_in = NoArcIn
    /\ arc_out = NoArcOut
    /\ theme \in [modal_center : ModeTags, custom_scale : CustomScales,
                  tempo : TempoConfigs, max_polyphony : PolyphonyArgs]

\* RetroMIDIComposer(theme, max_polyphony): no statement of lines 25-88 raises
\* on these configurations
Construct ==
    /\ pc = "build"
    /\ cfg' = [DefaultComposer EXCEPT
                 !.tempo = BuildTempo(theme.tempo),
                 !.scale = BuildScale(theme.modal_center, theme.custom_scale),
                 !.max_polyphony = IF theme.max_polyphony = Absent THEN 32 ELSE theme.max_polyphony]
    /\ active_notes' = <<>>
    /\ pc' = "built"
    /\ UNCHANGED <<midi, last, submitted, current_beat, idx, motif_i, lorenz, arc_in, arc_out,
                   order, draws, ref, chaos, theme, calls, fib, loader, gui>>

NextBuild == Construct

SpecBuild == InitBuild /\ [][NextBuild]_vars

\* C18: construction succeeds for every style configuration and the scale of
\* the Composer has at least one entry: the custom scale verbatim when one is
\* present, otherwise the built-in 8-note scale of the modal-center tag, an
\* unrecognized tag giving D_dorian.
C18_ScaleNeverEmpty ==
    /\ pc # "error"
    /\ pc = "built" =>
          /\ Len(cfg.scale) >= 1
          /\ theme.custom_scale.given => cfg.scale = theme.custom_scale.pitches
          /\ ~theme.custom_scale.given =>
                /\ cfg.scale \in {D_dorian, A_aeolian, E_phrygian}
                /\ Len(cfg.scale) = 8
                /\ theme.modal_center \notin {"A_aeolian", "E_phrygian"} => cfg.scale = D_dorian

(***************************************************************************)
(* SpecOrchestra: the callers of create_chapter_midi in the repository:    *)
(* generate_full_composition (yourdio.py) and                              *)
(* EventSoundscapeGenerator.generate_event_set (event_generator.py).       *)
(* `calls` records the arguments of each create_chapter_midi call and cfg  *)
(* the Composer it is made on; what the call itself does is Spec.          *)
(***************************************************************************)
\* line 539
MasterPrimes == <<2, 3, 5, 7, 11, 13, 17, 19, 23, 29, 31, 37, 41, 43, 47, 53>>

\* range(12), line 548
Chapters == 12

\* faulty variant of Slice: a window that runs past the end of the list is empty
SliceWithin(seq, lo, hi) == IF hi <= Len(seq) THEN SubSeq(seq, lo + 1, hi) ELSE <<>>

\* Python seq[lo:hi] for 0 <= lo <= hi: the slice stops at the end of the list
Slice(seq, lo, hi) == SubSeq(seq, Min2(lo, Len(seq)) + 1, Min2(hi, Len(seq)))

\* EVENT_CONFIGS in dictionary order; durations in half minutes, seeds in 1/ChaosScale
EVENT_CONFIGS ==
    <<[event_type |-> "carousing", duration_half_minutes |-> 4, primes |-> <<3, 5, 7, 11>>, chaos_seed |-> 420],
      [event_type |-> "fight", duration_half_minutes |-> 3, primes |-> <<2, 3, 5, 7>>, chaos_seed |-> 870],
      [event_type |-> "stealth", duration_half_minutes |-> 6, primes |-> <<5, 7, 11, 13>>, chaos_seed |-> 230],
      [event_type |-> "victory", duration_half_minutes |-> 2, primes |-> <<3, 5, 7>>, chaos_seed |-> 650],
      [event_type |-> "exploration", duration_half_minutes |-> 8, primes |-> <<7, 11, 13, 17>>, chaos_seed |-> 310],
      [event_type |-> "tension", duration_half_minutes |-> 5, primes |-> <<2, 5, 11>>, chaos_seed |-> 910],
      [event_type |-> "rest", duration_half_minutes |-> 6, primes |-> <<11, 13, 17>>, chaos_seed |-> 150],
      [event_type |-> "death", duration_half_minutes |-> 1, primes |-> <<2, 3>>, chaos_seed |-> 730]>>

\* themes handed to the orchestrators: DEFAULT_THEME with each arc type and
\* each setting of parameter_evolution.tempo / .polyphony
OrchestraThemes ==
    [arc_type : ArcTypes, evolve_tempo : BOOLEAN, evolve_polyphony : BOOLEAN]

\* structural_arc of the theme at one chapter (DEFAULT_THEME: 0.2, 0.8, climax 6)
ChapterArc(th, chapter) ==
    [type |-> th.arc_type, total_chapters |-> Chapters, chapter |-> chapter,
     climax_chapter |-> 6, min_intensity |-> 2, max_intensity |-> 8]

\* int(lo + intensity * span) for the intensity num/den in tenths
Scaled(lo, span, intensity) ==
    Trunc(lo * 10 * intensity.den + intensity.num * span, 10 * intensity.den)

\* one record of `calls`; the chaos seed is the fraction num/den
ChapterCallOf(chapter_id, duration_half_minutes, prime_sequence, num, den) ==
    [chapter_id |-> chapter_id, duration_half_minutes |-> duration_half_minutes,
     prime_sequence |-> prime_sequence, chaos_seed |-> [num |-> num, den |-> den]]

InitOrchestra ==
    /\ pc \in {"composition", "event_set"}
    /\ cfg = DefaultComposer
    /\ active_notes = <<>>
    /\ midi = <<>>
    /\ last = NoCall
    /\ submitted = <<>>
    /\ current_beat = 0
    /\ idx = 0
    /\ motif_i = 0
    /\ lorenz = <<0, 0, 0>>
    /\ order = LayerOrder
    /\ draws = <<>>
    /\ ref = NoRef
    /\ chaos = NoChaos
    /\ calls = <<>>
    /\ fib = NoFib
    /\ loader = NoLoader
    /\ gui = NoGui
    /\ arc_in = NoArcIn
    /\ arc_out = NoArcOut
    /\ theme \in OrchestraThemes

\* generate_full_composition, one iteration of the chapter loop (lines 548-581)
ChapterCall ==
    /\ pc = "composition"
    /\ Len(calls) < Chapters
    /\ LET chapter == Len(calls)
           intensity == CalculateChapterIntensity(ChapterArc(theme, chapter))
           current_tempo == IF theme.evolve_tempo THEN Scaled(52, 68 - 52, intensity) ELSE 58
           max_poly == IF theme.evolve_polyphony THEN Scaled(18, 14, intensity) ELSE 32
           chapter_primes == Slice(MasterPrimes, chapter, chapter + 8)
           seed_num == MasterPrimes[chapter + 1] % 97
       IN /\ cfg' = [DefaultComposer EXCEPT !.tempo = current_tempo, !.max_polyphony = max_poly,
                                            !.duration_half_minutes = 60,
                                            !.prime_sequence = chapter_primes,
                                            !.chaos_seed = (seed_num * ChaosScale) \div 97]
          /\ calls' = Append(calls, ChapterCallOf(chapter, 60, chapter_primes, seed_num, 97))
    /\ UNCHANGED <<pc, active_notes, midi, last, submitted, current_beat, idx, motif_i, lorenz,
                   arc_in, arc_out, order, draws, ref, chaos, theme, fib, loader, gui>>

\* the loop is over (lines 590-593)
CompositionDone ==
    /\ pc = "composition"
    /\ Len(calls) >= Chapters
    /\ pc' = "composed"
    /\ UNCHANGED <<cfg, active_notes, midi, last, submitted, current_beat, idx, motif_i, lorenz,
                   arc_in, arc_out, order, draws, ref, chaos, theme, calls, fib, loader, gui>>

\* generate_event_set with events=None, one iteration: generate_event of the
\* next entry of EVENT_CONFIGS (event_generator.py lines 109-128)
EventCall ==
    /\ pc = "event_set"
    /\ Len(calls) < Len(EVENT_CONFIGS)
    /\ LET config == EVENT_CONFIGS[Len(calls) + 1]
       IN /\ cfg' = [DefaultComposer EXCEPT !.duration_half_minutes = config.duration_half_minutes,
                                            !.prime_sequence = config.primes,
                                            !.chaos_seed = config.chaos_seed]
          /\ calls' = Append(calls, ChapterCallOf(0, config.duration_half_minutes, config.primes,
                                                  config.chaos_seed, ChaosScale))
    /\ UNCHANGED <<pc, active_notes, midi, last, submitted, current_beat, idx, motif_i, lorenz,
                   arc_in, arc_out, order, draws, ref, chaos, theme, fib, loader, gui>>

EventSetDone ==
    /\ pc = "event_set"
    /\ Len(calls) >= Len(EVENT_CONFIGS)
    /\ pc' = "events_generated"
    /\ UNCHANGED <<cfg, active_notes, midi, last, submitted, current_beat, idx, motif_i, lorenz,
                   arc_in, arc_out, order, draws, ref, chaos, theme, calls, fib, loader, gui>>

NextOrchestra ==
    \/ ChapterCall
    \/ CompositionDone
    \/ EventCall
    \/ EventSetDone

SpecOrchestra == InitOrchestra /\ [][NextOrchestra]_vars

\* C19: in generate_full_composition the call of chapter c (0..11) gets a
\* prime sequence of exactly 8 elements, element j being master[(c + j) mod 16],
\* and the chaos seed (master[c] mod 97)/97, which lies in [0,1).
C19_CyclicPrimeWindow ==
    pc \in {"composition", "composed"} =>
        \A k \in 1..Len(calls) :
            LET c == k - 1 IN
            /\ Len(calls[k].prime_sequence) = 8
            /\ \A j \in 0..7 :
                  j < Len(calls[k].prime_sequence) =>
                      calls[k].prime_sequence[j + 1] = MasterPrimes[((c + j) % 16) + 1]
            /\ calls[k].chaos_seed = [num |-> MasterPrimes[c + 1] % 97, den |-> 97]
            /\ 0 <= calls[k].chaos_seed.num
            /\ calls[k].chaos_seed.num < calls[k].chaos_seed.den

\* C20: every create_chapter_midi call of the two orchestrators has a
\* positive duration, a non-empty prime sequence and a chaos seed in [0,1).
C20_CallsWithinContract ==
    \A k \in 1..Len(calls) :
        /\ calls[k].duration_half_minutes > 0
        /\ Len(calls[k].prime_sequence) >= 1
        /\ 0 <= calls[k].chaos_seed.num
        /\ calls[k].chaos_seed.num < calls[k].chaos_seed.den

\* C20 witness: all twelve chapters were called, the last with the shortest
\* window of the master list.
C20_Witness ==
    /\ pc = "composed"
    /\ Len(calls) = Chapters
    /\ Len(calls[Chapters].prime_sequence) = 5
    /\ calls[Chapters].chaos_seed.num = 37

(***************************************************************************)
(* SpecFib: _fibonacci_sequence on bounded lengths                         *)
(***************************************************************************)
\* largest |n| handed to the function
MaxFib == 30

InitFib ==
    /\ pc = "fib"
    /\ cfg = DefaultComposer
    /\ active_notes = <<>>
    /\ midi = <<>>
    /\ last = NoCall
    /\ submitted = <<>>
    /\ current_beat = 0
    /\ idx = 0
    /\ motif_i = 0
    /\ lorenz = <<0, 0, 0>>
    /\ order = LayerOrder
    /\ draws = <<>>
    /\ ref = NoRef
    /\ chaos = NoChaos
    /\ theme = NoTheme
    /\ arc_in = NoArcIn
    /\ arc_out = NoArcOut
    /\ calls = <<>>
    /\ loader = NoLoader
    /\ gui = NoGui
    /\ fib \in {[n |-> n, out |-> <<>>, done |-> FALSE] : n \in (-MaxFib)..MaxFib}

\* one call of _fibonacci_sequence(n)
FibCall ==
    /\ pc = "fib"
    /\ ~fib.done
    /\ fib' = [fib EXCEPT !.out = FibonacciSequence(fib.n), !.done = TRUE]
    /\ UNCHANGED <<pc, cfg, active_notes, midi, last, submitted, current_beat, idx, motif_i, lorenz,
                   arc_in, arc_out, order, draws, ref, chaos, theme, calls, loader, gui>>

NextFib == FibCall

SpecFib == InitFib /\ [][NextFib]_vars

\* C21: _fibonacci_sequence(n) is empty for n <= 0; otherwise it has exactly n
\* elements, the first two (when present) are 1 and every later one is the sum
\* of the two before it; 1 gives [1] and 5 gives [1,1,2,3,5].
C21_FibonacciShape ==
    fib.done =>
        /\ fib.n <= 0 => fib.out = <<>>
        /\ fib.n > 0 =>
              /\ Len(fib.out) = fib.n
              /\ \A k \in 1..Len(fib.out) :
                    IF k <= 2 THEN fib.out[k] = 1
                    ELSE fib.out[k] = fib.out[k - 1] + fib.out[k - 2]
        /\ fib.n = 1 => fib.out = <<1>>
        /\ fib.n = 5 => fib.out = <<1, 1, 2, 3, 5>>

\* C21 witness: the call with n = 5 returned.
C21_Witness ==
    /\ fib.done
    /\ fib.n = 5
    /\ Len(fib.out) = 5
    /\ fib.out[5] = 5

(***************************************************************************)
(* SpecMerge: ThemeLoader._merge_with_defaults on partial themes.  A theme *)
(* is a tree: a leaf carries a value (kept as its YAML text), a dict maps  *)
(* keys to trees.                                                          *)
(***************************************************************************)
Leaf(v) == [leaf |-> TRUE, v |-> v, d |-> <<>>]

Dict(f) == [leaf |-> FALSE, v |-> "", d |-> f]

DEFAULT_THEME ==
    Dict([name |-> Leaf("Default"),
          modal_center |-> Leaf("D_dorian"),
          harmony_rules |-> Dict([type |-> Leaf("quartal"), intervals |-> Leaf("[0, 3, 6]")]),
          rhythmic_language |-> Dict([
              harmonic_bed |-> Dict([type |-> Leaf("prime_modulated"),
                                     base_duration |-> Leaf("32"),
                                     prime_mod_factor |-> Leaf("8")]),
              melodic_texture |-> Dict([type |-> Leaf("fibonacci"),
                                        sequence_length |-> Leaf("8"),
                                        base_unit |-> Leaf("0.25")]),
              drones |-> Dict([type |-> Leaf("lorenz_attractor"),
                               duration_multiplier |-> Leaf("4"),
                               cc_event_interval |-> Leaf("4")]),
              ambient_events |-> Dict([type |-> Leaf("logistic_map"),
                                       threshold |-> Leaf("0.87"),
                                       event_count |-> Leaf("64")])]),
          ensemble_gm |-> Dict([harmonic_bed |-> Leaf("89"),
                                melodic_texture |-> Leaf("92"),
                                drones |-> Leaf("95"),
                                ambient_events |-> Leaf("99")]),
          tempo |-> Dict([base |-> Leaf("58"), variation_range |-> Leaf("[52, 68]")]),
          dynamics |-> Dict([
              harmonic_bed |-> Dict([base_velocity |-> Leaf("45"), prime_mod_range |-> Leaf("20")]),
              melodic_texture |-> Dict([base_velocity |-> Leaf("55"), prime_mod_range |-> Leaf("25")]),
              drones |-> Dict([velocity |-> Leaf("50")]),
              ambient_events |-> Dict([base_velocity |-> Leaf("60"),
                                       intensity_scaling |-> Leaf("30")])]),
          structural_arc |-> Dict([type |-> Leaf("parabolic"),
                                   min_intensity |-> Leaf("0.2"),
                                   max_intensity |-> Leaf("0.8"),
                                   climax_chapter |-> Leaf("6")]),
          parameter_evolution |-> Dict([tempo |-> Leaf("True"),
                                        polyphony |-> Leaf("True"),
                                        velocity |-> Leaf("True"),
                                        register |-> Leaf("True")]),
          chaos |-> Dict([logistic_r |-> Leaf("3.86"),
                          lorenz_sigma |-> Leaf("10.0"),
                          lorenz_rho |-> Leaf("28.0"),
                          lorenz_beta |-> Leaf("8.0 / 3.0")]),
          motif |-> Dict([core_pattern |-> Leaf("[0, 2, 5, 7]"),
                          interval_minutes |-> Leaf("17"),
                          register_shift_prime_mod |-> Leaf("2"),
                          ornament_density_mod |-> Leaf("5")])])

\* {**a, **b}: the keys of both, b's value where both have the key
DictUnpack(a, b) ==
    [k \in (DOMAIN a) \cup (DOMAIN b) |-> IF k \in DOMAIN b THEN b[k] ELSE a[k]]

\* _merge_with_defaults: a shallow copy of the defaults, then per top-level key
\* of the theme either a one-level merge of two dicts or a replacement
MergeWithDefaults(defaults, partial) ==
    Dict([key \in (DOMAIN defaults.d) \cup (DOMAIN partial.d) |->
            IF key \notin DOMAIN partial.d THEN defaults.d[key]
            ELSE IF /\ ~partial.d[key].leaf
                    /\ key \in DOMAIN defaults.d
                    /\ ~defaults.d[key].leaf
                 THEN Dict(DictUnpack(defaults.d[key].d, partial.d[key].d))
                 ELSE partial.d[key]])

\* what a partial theme may say under each of five top-level keys; Absent
\* stands for a key the theme does not have
PartialOptions ==
    [name |-> {Leaf("Partial")},
     tempo |-> {Dict([base |-> Leaf("80")]), Leaf("80")},
     rhythmic_language |->
         {Dict([harmonic_bed |-> Dict([base_duration |-> Leaf("16")])]),
          Dict([drones |-> Dict([type |-> Leaf("lorenz_attractor"),
                                 duration_multiplier |-> Leaf("2"),
                                 cc_event_interval |-> Leaf("4")])])},
     dynamics |-> {Dict([drones |-> Dict([velocity |-> Leaf("70")])]),
                   Dict([harmonic_bed |-> Dict([base_velocity |-> Leaf("30")])])},
     description |-> {Leaf("A partial theme")}]

PartialKeys == DOMAIN PartialOptions

\* the partial themes: any subset of the keys, one option for each
PartialThemes ==
    UNION {{Dict(f) : f \in [keys -> UNION {PartialOptions[k] : k \in keys}]
                      \cap {g \in [keys -> UNION {PartialOptions[k] : k \in keys}] :
                               \A k \in keys : g[k] \in PartialOptions[k]}}
           : keys \in SUBSET PartialKeys}

InitMerge ==
    /\ pc = "merge"
    /\ cfg = DefaultComposer
    /\ active_notes = <<>>
    /\ midi = <<>>
    /\ last = NoCall
    /\ submitted = <<>>
    /\ current_beat = 0
    /\ idx = 0
    /\ motif_i = 0
    /\ lorenz = <<0, 0, 0>>
    /\ order = LayerOrder
    /\ draws = <<>>
    /\ ref = NoRef
    /\ chaos = NoChaos
    /\ theme = NoTheme
    /\ arc_in = NoArcIn
    /\ arc_out = NoArcOut
    /\ calls = <<>>
    /\ fib = NoFib
    /\ gui = NoGui
    /\ loader \in {[called |-> FALSE, defaults |-> DEFAULT_THEME, partial |-> p,
                    merged |-> Dict(<<>>)] : p \in PartialThemes}

\* one call of ThemeLoader._merge_with_defaults(theme); the class attribute
\* DEFAULT_THEME is only read
MergeCall ==
    /\ pc = "merge"
    /\ ~loader.called
    /\ loader' = [loader EXCEPT !.called = TRUE,
                                !.merged = MergeWithDefaults(loader.defaults, loader.partial)]
    /\ UNCHANGED <<pc, cfg, active_notes, midi, last, submitted, current_beat, idx, motif_i, lorenz,
                   arc_in, arc_out, order, draws, ref, chaos, theme, calls, fib, gui>>

NextMerge == MergeCall

SpecMerge == InitMerge /\ [][NextMerge]_vars

RECURSIVE Present(_, _)
\* the tree has a node at the path
Present(node, path) ==
    IF path = <<>> THEN TRUE
    ELSE /\ ~node.leaf
         /\ Head(path) \in DOMAIN node.d
         /\ Present(node.d[Head(path)], Tail(path))

RECURSIVE At(_, _)
At(node, path) == IF path = <<>> THEN node ELSE At(node.d[Head(path)], Tail(path))

RECURSIVE LeafPaths(_)
\* the paths of the fields (leaves) of a tree
LeafPaths(node) ==
    IF node.leaf THEN {<<>>}
    ELSE UNION {{<<k>> \o p : p \in LeafPaths(node.d[k])} : k \in DOMAIN node.d}

\* the partial theme says nothing about the field: it has no node at the path
\* and gives no plain value to a section the path runs through
NotSetBy(partial, path) ==
    /\ ~Present(partial, path)
    /\ \A n \in 1..(Len(path) - 1) :
          Present(partial, SubSeq(path, 1, n)) => ~At(partial, SubSeq(path, 1, n)).leaf

HasField(tree, path, value) ==
    /\ Present(tree, path)
    /\ At(tree, path).leaf
    /\ At(tree, path).v = value

\* C22: after _merge_with_defaults every field of DEFAULT_THEME, at any depth,
\* that the partial theme does not set is in the result with its default
\* value, every field the partial theme sets has the partial theme's value,
\* and DEFAULT_THEME is unchanged.
C22_MergeFillsEveryDepth ==
    loader.called =>
        /\ \A p \in LeafPaths(DEFAULT_THEME) :
              NotSetBy(loader.partial, p) => HasField(loader.merged, p, At(DEFAULT_THEME, p).v)
        /\ \A p \in LeafPaths(loader.partial) :
              HasField(loader.merged, p, At(loader.partial, p).v)
        /\ loader.defaults = DEFAULT_THEME

(***************************************************************************)
(* Prime index and cursor of the harmonic bed and the drones (Spec)        *)
(***************************************************************************)
RECURSIVE ChordStart(_)
\* sum of the chord lengths of iterations 0..k-1
ChordStart(k) == IF k <= 0 THEN 0 ELSE ChordStart(k - 1) + ChordLengthAt(k)

\* drone_length of iteration k (line 359)
DroneLengthAt(k) == PrimeAt(cfg, k) * cfg.duration_multiplier

RECURSIVE DroneStart(_)
\* sum of the drone lengths of iterations 0..k-1
DroneStart(k) == IF k <= 0 THEN 0 ELSE DroneStart(k - 1) + DroneLengthAt(k - 1)

\* the cursor and the written Notes at the loop test of the two generators
CursorIsSumOfLengths ==
    /\ pc = "harmonic" =>
          /\ current_beat = ChordStart(idx)
          /\ ChordCount = idx
          /\ \A k \in 1..idx :
                /\ ChordHead(k).time = ChordStart(k - 1) * Resolution
                /\ ChordHead(k).duration = (ChordLengthAt(k) * Resolution * 95) \div 100
    /\ pc = "drones" =>
          /\ current_beat = DroneStart(idx)
          /\ Len(TrackNotes(2)) = idx
          /\ \A k \in 1..idx :
                /\ TrackNotes(2)[k].time = DroneStart(k - 1) * Resolution
                /\ TrackNotes(2)[k].duration =
                      Min2(DroneLengthAt(k - 1), BeatsTotal(cfg) - DroneStart(k - 1)) * Resolution

\* an iteration of either loop moves the prime index up by one
IndexStepsByOne ==
    (pc \in {"harmonic", "drones"} /\ pc' = pc) => idx' = idx + 1

\* C23: in the harmonic bed and in the drones iteration k uses
\* primes[k mod len(primes)], the prime index grows by exactly 1 per iteration
\* and is never reset, and the cursor at the start of iteration k is the sum of
\* the lengths of iterations 0..k-1 (chord: base_duration + prime mod
\* prime_mod_factor; drone: prime x duration_multiplier).
C23_PrimeIndexAndCursor == [](CursorIsSumOfLengths) /\ [][IndexStepsByOne]_vars

\* C23 witness: the drone loop is past the end of the prime list (iteration 3
\* used primes[0] again) and the harmonic bed wrote its chords.
C23_Witness ==
    /\ cfg = DenseRequest
    /\ pc = "drones"
    /\ idx = 4
    /\ current_beat = 48
    /\ TrackNotes(2)[4].duration = 8 * Resolution
    /\ ChordCount = 13

(***************************************************************************)
(* Chords of the harmonic bed (Spec)                                       *)
(***************************************************************************)
\* the Notes of chord k (from 1), in emission order
ChordNotes(k) ==
    LET n == Len(cfg.harmony_intervals)
    IN [j \in 1..n |-> TrackNotes(0)[(k - 1) * n + j]]

\* the pitches the chord of iteration k - 1 is stated to have, given whether
\* the variation applies to the theme
StatedChord(k, variation_applies) ==
    LET p == PrimeAt(cfg, k - 1)
        L == Len(cfg.scale)
        chosen == IF variation_applies /\ p % cfg.harmony_variation_mod = 0
                  THEN cfg.harmony_variation_intervals
                  ELSE cfg.harmony_intervals
    IN [j \in 1..Len(chosen) |->
           cfg.scale[((((2 * (k - 1)) % L) + chosen[j]) % L) + 1] - (IF p % 2 = 0 THEN 12 ELSE 0)]

ChordsAre(variation_applies) ==
    \A k \in 1..ChordCount :
        [j \in 1..Len(cfg.harmony_intervals) |-> ChordNotes(k)[j].pitch] = StatedChord(k, variation_applies)

\* C24 as stated: chord k has one note per interval of the chosen set, in
\* order, scale[((2k mod L) + interval) mod L], 12 lower exactly when the prime
\* is even; the chosen set is the variation interval set whenever a variation
\* interval set is configured and p mod variation_chance_mod = 0, the base set
\* otherwise.
C24_VariationWhenSetConfigured == ChordsAre(cfg.variation_intervals_given)

\* C24 amended: the same chord, the chosen set being the variation interval
\* set (the configured one, [0, 2, 4] when none is configured) whenever the
\* harmony rules name a variation and p mod variation_chance_mod = 0, and the
\* base set otherwise.
C24_VariationWhenNamed == ChordsAre(cfg.harmony_variation)

\* C24 witness: under harmony rules with a named variation and a variation
\* interval set, chord 3 (prime 3) is the variation chord and chord 1 (prime 2)
\* the base chord an octave down.
C24_Witness ==
    /\ cfg \in VariationRequests
    /\ cfg.harmony_variation
    /\ cfg.variation_intervals_given
    /\ pc = "done"
    /\ ChordCount = 13
    /\ [j \in 1..3 |-> ChordNotes(3)[j].pitch] = <<ScaleAt(cfg, 4), ScaleAt(cfg, 5), ScaleAt(cfg, 9)>>
    /\ [j \in 1..3 |-> ChordNotes(1)[j].pitch] = <<cfg.scale[1] - 12, cfg.scale[4] - 12, cfg.scale[7] - 12>>

(***************************************************************************)
(* Micro-patterns of the ambient events (Spec)                             *)
(***************************************************************************)
\* what track 3 carries, in emission order
AmbientTrack == SelectSeq(midi, LAMBDA e : e.track = 3 /\ e.kind \in {"note", "bend"})

\* event_beat = event['timestamp'] * beats_total (line 405), in ticks
EventBeat(event) == Trunc(event.timestamp.num * BeatsTotal(cfg) * Resolution, event.timestamp.den)

\* number of sink entries stated for an event of the given intensity
PatternSize(intensity) == IF intensity > 900 THEN 10 ELSE IF intensity > 700 THEN 12 ELSE 4

RECURSIVE PatternOffset(_, _)
\* sink entries of the events before event n
PatternOffset(events, n) ==
    IF n <= 1 THEN 0
    ELSE PatternOffset(events, n - 1) + PatternSize(events[n - 1].intensity)

\* b is `count` Notes spaced `gap` ticks apart from `beat`
NotesApart(b, count, beat, gap) ==
    \A i \in 1..count : b[i].kind = "note" /\ b[i].time = beat + (i - 1) * gap

IsThunder(b, beat) ==
    /\ Len(b) = 10
    /\ NotesApart(b, 8, beat, Resolution \div 8)
    /\ \A i \in 1..8 : b[i].pitch = b[1].pitch /\ b[i].pitch < 60
    /\ b[9].kind = "bend" /\ b[9].value = -4096 /\ b[9].time = beat
    /\ b[10].kind = "bend" /\ b[10].value = 0 /\ b[10].time = beat + Resolution

IsSwell(b, beat) == Len(b) = 12 /\ NotesApart(b, 12, beat, Resolution \div 2)

IsShimmer(b, beat) == Len(b) = 4 /\ NotesApart(b, 4, beat, Resolution \div 4)

CountOf(events, test(_)) == Cardinality({n \in 1..Len(events) : test(events[n].intensity)})

\* C25: each logistic-map event gives exactly one micro-pattern by intensity:
\* > 0.9 eight Notes of one low pitch 0.125 beats apart, a pitch-bend of -4096
\* at the event beat and of 0 one beat later; > 0.7 and <= 0.9 twelve Notes
\* 0.5 beats apart; <= 0.7 four Notes 0.25 beats apart; track 3 carries
\* 8a+12b+4c Notes and 2a pitch-bends.
C25_OnePatternPerEvent ==
    pc = "done" =>
        LET events == LogisticMapEvents(cfg, cfg.chaos_seed)
            a == CountOf(events, LAMBDA t : t > 900)
            b == CountOf(events, LAMBDA t : t > 700 /\ t <= 900)
            c == CountOf(events, LAMBDA t : t <= 700)
        IN /\ Len(SelectSeq(AmbientTrack, LAMBDA e : e.kind = "note")) = 8 * a + 12 * b + 4 * c
           /\ Len(SelectSeq(AmbientTrack, LAMBDA e : e.kind = "bend")) = 2 * a
           /\ Len(TrackNotes(3)) = 8 * a + 12 * b + 4 * c
           /\ \A n \in 1..Len(events) :
                 LET t == events[n].intensity
                     from == PatternOffset(events, n)
                     block == SubSeq(AmbientTrack, from + 1, from + PatternSize(t))
                     beat == EventBeat(events[n])
                 IN /\ t > 900 => IsThunder(block, beat)
                    /\ (t > 700 /\ t <= 900) => IsSwell(block, beat)
                    /\ t <= 700 => IsShimmer(block, beat)

\* C25 witness: the chapter with growth rate 3.99 ended with 3 thunder rolls,
\* 10 swells and 8 shimmers on track 3.
C25_Witness ==
    /\ cfg = ThunderRequest
    /\ pc = "done"
    /\ Len(TrackNotes(3)) = 8 * 3 + 12 * 10 + 4 * 8
    /\ Len(SelectSeq(AmbientTrack, LAMBDA e : e.kind = "bend")) = 6

(***************************************************************************)
(* Who touches active_notes (Spec)                                         *)
(***************************************************************************)
\* a step of the harmonic bed or of the ambient events leaves active_notes
\* alone; a step that changes it is a motif note, an ornament or a drone
OnlySubmissionsTouchActiveNotes ==
    /\ pc \in {"harmonic", "ambient"} => active_notes' = active_notes
    /\ active_notes' # active_notes => pc \in {"motif_note", "ornament", "drones"}

\* C26: harmonic-bed and ambient-event generation write their Notes directly
\* and leave the Active-Note Set unchanged, however many notes they emit; only
\* melodic-texture and drone submissions add or remove entries.
C26_DirectLayersLeaveActiveNotes == [][OnlySubmissionsTouchActiveNotes]_vars

\* C26 witness: a finished chapter with Notes on tracks 0 and 3 whose
\* active_notes holds entries of tracks 1 and 2 only.
C26_Witness ==
    /\ pc = "done"
    /\ Len(TrackNotes(0)) >= 3
    /\ Len(TrackNotes(3)) >= 4
    /\ active_notes # <<>>
    /\ \A k \in 1..Len(active_notes) : active_notes[k].track \in {1, 2}

(***************************************************************************)
(* The Lorenz state across the drones of one chapter (Spec)                *)
(***************************************************************************)
\* one Euler step (dt = 0.01) as a function of the point and the three
\* coefficients alone
EulerStep(sigma, rho, beta, s) ==
    LET dx == Trunc(sigma * (s[2] - s[1]), ChaosScale * 100)
        dy == Trunc(Trunc(s[1] * (rho - s[3]), ChaosScale) - s[2], 100)
        dz == Trunc(Trunc(s[1] * s[2], ChaosScale) - Trunc(beta * s[3], ChaosScale), 100)
    IN <<s[1] + dx, s[2] + dy, s[3] + dz>>

\* the states after 1..n Euler steps from s (the first half of the steps is
\* computed before the second half starts from its last state)
RECURSIVE EulerOrbit(_, _, _, _, _)
EulerOrbit(sigma, rho, beta, s, n) ==
    IF n <= 0 THEN <<>>
    ELSE IF n = 1 THEN <<EulerStep(sigma, rho, beta, s)>>
    ELSE LET first == EulerOrbit(sigma, rho, beta, s, n \div 2)
         IN first \o EulerOrbit(sigma, rho, beta, first[Len(first)], n - n \div 2)

\* n Euler steps from s
EulerFrom(sigma, rho, beta, s, n) ==
    IF n <= 0 THEN s ELSE EulerOrbit(sigma, rho, beta, s, n)[n]

\* controller slots of drone k: int(drone_length / cc_event_interval)
SlotsOf(k) == DroneLengthAt(k) \div cfg.cc_event_interval

RECURSIVE SlotsBefore(_)
\* controller slots of drones 0..k-1
SlotsBefore(k) == IF k <= 0 THEN 0 ELSE SlotsBefore(k - 1) + SlotsOf(k - 1)

\* the controller events written on the drone track
DroneControllers == SelectSeq(midi, LAMBDA e : e.kind = "cc" /\ e.track = 2)

\* C27: within one chapter's drone generation the Lorenz state starts at
\* (0.1, 0, 0), takes exactly one Euler step per controller slot
\* (floor(drone_length / cc_event_interval) per drone), suppressed slots
\* included, and is never reset between drones; the step depends on (x, y, z)
\* and sigma, rho, beta only and changes nothing else.
C27_LorenzStepPerSlot ==
    pc = "drones" =>
        /\ lorenz = EulerFrom(cfg.lorenz_sigma, cfg.lorenz_rho, cfg.lorenz_beta,
                              <<ChaosScale \div 10, 0, 0>>, SlotsBefore(idx))
        /\ Len(DroneControllers) <= SlotsBefore(idx)

\* C27 witness: the dense chapter after its ninth drone: 30 slots stepped,
\* the slot at beat 116 suppressed, the state away from its start.
C27_Witness ==
    /\ cfg = DenseRequest
    /\ pc = "drones"
    /\ idx = 9
    /\ SlotsBefore(9) = 30
    /\ Len(DroneControllers) = 29
    /\ lorenz # <<ChaosScale \div 10, 0, 0>>

(***************************************************************************)
(* Motif statements of the melodic texture (Spec)                          *)
(***************************************************************************)
\* ornaments among the first n draws
OrnamentsIn(n) == Cardinality({m \in 1..n : draws[m]})

\* motif note n (from 1) of the chapter: its statement, its index in the pattern
StatementOf(n) == (n - 1) \div Len(cfg.motif_pattern)

PatternIndexOf(n) == (n - 1) % Len(cfg.motif_pattern)

\* where motif note n stands among the Notes of track 1
MotifPosition(n) == n + OrnamentsIn(n - 1)

\* C28: every motif statement (iteration k, prime primes[k mod len(primes)])
\* submits exactly len(pattern) motif notes in pattern order, after each at
\* most one ornament 0.5 beats later with duration 0.5 and velocity 10 lower,
\* and no ornament at all when p mod ornament_density_divisor = 0.
C28_MotifStatementShape ==
    (pc \notin {"error", "start"} /\ cfg.prime_sequence # <<>>) =>
        /\ pc = "melodic" => Len(draws) = idx * Len(cfg.motif_pattern)
        /\ pc = "motif_note" => Len(draws) = idx * Len(cfg.motif_pattern) + motif_i
        /\ Len(TrackNotes(1)) = Len(draws) + OrnamentsIn(Len(draws)) + (IF pc = "ornament" THEN 1 ELSE 0)
        /\ \A n \in 1..Len(draws) :
              LET p == PrimeAt(cfg, StatementOf(n))
                  i == PatternIndexOf(n)
                  note == TrackNotes(1)[MotifPosition(n)]
                  shift == IF p % cfg.motif_register_mod = 0 THEN 12 ELSE 0
              IN /\ note.pitch = ScaleAt(cfg, cfg.motif_pattern[i + 1]) + shift
                 /\ note.time = (StatementOf(n) * MotifIntervalBeats + 2 * i) * Resolution
                                   + (p % 3) * (Resolution \div 10)
                 /\ draws[n] =>
                       LET ornament == TrackNotes(1)[MotifPosition(n) + 1]
                       IN /\ p % cfg.motif_ornament_mod # 0
                          /\ ornament.time = note.time + Resolution \div 2
                          /\ ornament.duration = Resolution \div 2
                          /\ ornament.value = note.value - 10
                          /\ ornament.pitch = ScaleAt(cfg, (cfg.motif_pattern[i + 1] % Len(cfg.scale)) + 1) + shift

\* C28 witness: the dense chapter made two statements; the first (prime 2)
\* carries ornaments after its first and last note, the second (prime 5, density
\* 0) none.
C28_Witness ==
    /\ cfg = DenseRequest
    /\ pc = "done"
    /\ draws = <<TRUE, FALSE, FALSE, TRUE, FALSE, FALSE, FALSE, FALSE>>
    /\ Len(TrackNotes(1)) = 10
    /\ TrackNotes(1)[2].time = TrackNotes(1)[1].time + Resolution \div 2

(***************************************************************************)
(* SpecLive: termination of create_chapter_midi.  The call runs on its own *)
(* thread of control until it returns or raises, so a step that is enabled *)
(* is eventually taken.                                                    *)
(***************************************************************************)
\* most motif statements followed in one chapter
MaxStatements == 3

\* interval_minutes of the themes, as motif_interval / motif_interval_den:
\* 17, 1 and 0.01 minutes
MotifIntervals == {<<17, 1>>, <<1, 1>>, <<1, 100>>}

LiveCeilings == {1, 2, 32}

\* themes with one controller slot per 64 beats and 4 logistic iterations
LiveRequests ==
    {[PairMotifTheme EXCEPT !.motif_interval = m[1], !.motif_interval_den = m[2],
                            !.cc_event_interval = 64, !.event_count = 4,
                            !.max_polyphony = c, !.duration_half_minutes = d, !.prime_sequence = p] :
        m \in MotifIntervals, c \in LiveCeilings, d \in 1..MaxHalfMinutes,
        p \in {<<>>, <<2, 3>>}}

InitLive ==
    /\ pc = "start"
    /\ cfg \in LiveRequests
    /\ Fresh
    /\ arc_in = NoArcIn
    /\ arc_out = NoArcOut

\* MelodicStatement, followed for at most MaxStatements statements
MelodicStatementLive == idx < MaxStatements /\ MelodicStatement

NextLive ==
    \/ Begin
    \/ RaiseEmptyPrimes
    \/ HarmonicChord
    \/ HarmonicDone
    \/ MelodicStatementLive
    \/ MotifNote
    \/ Ornament
    \/ NoOrnament
    \/ MelodicAdvance
    \/ MelodicDone
    \/ Drone
    \/ DronesDone
    \/ Ambient

SpecLive == InitLive /\ [][NextLive]_vars /\ WF_vars(NextLive)

\* the configurations and requests the statement is about
PositiveRequest ==
    /\ cfg.tempo > 0
    /\ cfg.h_base_duration > 0
    /\ cfg.duration_multiplier > 0
    /\ cfg.motif_interval > 0
    /\ cfg.motif_interval_den > 0
    /\ cfg.duration_half_minutes > 0
    /\ cfg.prime_sequence # <<>>
    /\ \A k \in 1..Len(cfg.prime_sequence) : cfg.prime_sequence[k] >= 2

\* an iteration of one of the three cursor loops moves the cursor forward
CursorAdvances ==
    /\ (PositiveRequest /\ pc \in {"harmonic", "drones"} /\ pc' = pc) => current_beat' > current_beat
    /\ (PositiveRequest /\ pc = "motif_note" /\ pc' = "melodic") => current_beat' > current_beat

\* C29: create_chapter_midi terminates for every configuration with positive
\* tempo, base_duration, duration_multiplier and interval_minutes and every
\* request with positive duration and a non-empty sequence of primes >= 2: in
\* each of the three cursor loops the cursor advances by a strictly positive
\* amount in every iteration, so it eventually reaches beats_total.
C29_ChapterTerminates == [][CursorAdvances]_vars /\ (PositiveRequest ~> (pc = "done"))

(***************************************************************************)
(* SpecGui: generation runs started from the GUI.  The button handlers run *)
(* on the main thread, one at a time; every run has a background thread.   *)
(* gui.files holds the text of temp_theme.yaml ("theme") and of            *)
(* temp_event_theme.yaml ("events"): "missing", "empty" or a theme name.   *)
(***************************************************************************)
\* most runs started
MaxRuns == 2

\* what the widgets may hold when a button is pressed
WidgetThemes == {"Dorian Night", "Aeolian Dawn"}

RunKinds == {"theme", "events"}

\* Path(...).exists() and a non-empty document (yaml.safe_load gives a dict)
Readable(text) == text \notin {"missing", "empty"}

SetRun(r, run) == gui' = [gui EXCEPT !.runs[r] = run]

\* generate_theme / generate_events up to open(temp_theme_path, "w"): the
\* widgets are read and the file is created or truncated
PressGenerate(kind, widgets) ==
    /\ pc = "gui"
    /\ Len(gui.runs) < MaxRuns
    /\ \A r \in 1..Len(gui.runs) : gui.runs[r].pos # "opened"
    /\ gui' = [runs |-> Append(gui.runs, [kind |-> kind, theme |-> widgets, pos |-> "opened",
                                          loaded |-> "none", generated |-> FALSE]),
               files |-> [gui.files EXCEPT ![kind] = "empty"]]

\* yaml.dump(theme, f), the file is closed, thread.start()
DumpAndStart(r) ==
    /\ pc = "gui"
    /\ gui.runs[r].pos = "opened"
    /\ gui' = [runs |-> [gui.runs EXCEPT ![r].pos = "started"],
               files |-> [gui.files EXCEPT ![gui.runs[r].kind] = gui.runs[r].theme]]

\* the thread's ThemeLoader.load(temp path): FileNotFoundError when the file
\* is gone, an AttributeError from _merge_with_defaults(None) when it is empty
ThreadLoad(r) ==
    /\ pc = "gui"
    /\ gui.runs[r].pos = "started"
    /\ LET text == gui.files[gui.runs[r].kind]
       IN IF Readable(text)
          THEN SetRun(r, [gui.runs[r] EXCEPT !.pos = "loaded", !.loaded = text])
          ELSE SetRun(r, [gui.runs[r] EXCEPT !.pos = "error"])

\* the rest of generate_full_composition / generate_event_set: the files are
\* written (generate_event loads the theme file again per event and a failure
\* there is caught inside generate_event_set)
ThreadGenerate(r) ==
    /\ pc = "gui"
    /\ gui.runs[r].pos = "loaded"
    /\ SetRun(r, [gui.runs[r] EXCEPT !.pos = "generated", !.generated = TRUE])

\* self.log(...complete), temp_theme_path.unlink(), messagebox.showinfo; an
\* unlink of a missing file raises FileNotFoundError into the except branch
ThreadCleanUp(r) ==
    /\ pc = "gui"
    /\ gui.runs[r].pos = "generated"
    /\ IF gui.files[gui.runs[r].kind] = "missing"
       THEN SetRun(r, [gui.runs[r] EXCEPT !.pos = "error"])
       ELSE gui' = [runs |-> [gui.runs EXCEPT ![r].pos = "success"],
                    files |-> [gui.files EXCEPT ![gui.runs[r].kind] = "missing"]]

GuiFrame ==
    UNCHANGED <<pc, cfg, active_notes, midi, last, submitted, current_beat, idx, motif_i, lorenz,
                arc_in, arc_out, order, draws, ref, chaos, theme, calls, fib, loader>>

InitGui ==
    /\ pc = "gui"
    /\ cfg = DefaultComposer
    /\ active_notes = <<>>
    /\ midi = <<>>
    /\ last = NoCall
    /\ submitted = <<>>
    /\ current_beat = 0
    /\ idx = 0
    /\ motif_i = 0
    /\ lorenz = <<0, 0, 0>>
    /\ order = LayerOrder
    /\ draws = <<>>
    /\ ref = NoRef
    /\ chaos = NoChaos
    /\ theme = NoTheme
    /\ arc_in = NoArcIn
    /\ arc_out = NoArcOut
    /\ calls = <<>>
    /\ fib = NoFib
    /\ loader = NoLoader
    /\ gui = NoGui

NextGui ==
    \/ \E kind \in RunKinds, widgets \in WidgetThemes : PressGenerate(kind, widgets) /\ GuiFrame
    \/ \E r \in 1..Len(gui.runs) : DumpAndStart(r) /\ GuiFrame
    \/ \E r \in 1..Len(gui.runs) : ThreadLoad(r) /\ GuiFrame
    \/ \E r \in 1..Len(gui.runs) : ThreadGenerate(r) /\ GuiFrame
    \/ \E r \in 1..Len(gui.runs) : ThreadCleanUp(r) /\ GuiFrame

SpecGui == InitGui /\ [][NextGui]_vars

\* C30: when a second run is started while an earlier run's thread is still
\* working, under every interleaving each run loads the theme that was
\* written for it, and each run whose generation succeeds reports success
\* rather than an error.
C30_RunsDoNotInterfere ==
    \A r \in 1..Len(gui.runs) :
        /\ gui.runs[r].loaded # "none" => gui.runs[r].loaded = gui.runs[r].theme
        /\ gui.runs[r].generated => gui.runs[r].pos # "error"

====
